---- MODULE Spec2Model ----
(***************************************************************************)
(* Meeting-room booking backend: the reservation workflow (overlap check,  *)
(* cost calculation, status updates) and the room operations it depends    *)
(* on, as the HTTP handlers and services execute them against the          *)
(* relational schema of db/migrations.                                     *)
(*                                                                         *)
(* Units.  Times are minutes on one clock.  Catalog prices (rooms, snacks, *)
(* reservation_snacks.price, reservations.price) are DECIMAL(10,2) columns *)
(* and are held in hundredths.  A float64 amount (a price of a request, a  *)
(* total computed by the services) is held as its whole hundredths and the *)
(* sixtieths of a hundredth beyond them, so that pricePerHour * hours is   *)
(* exact for every whole number of minutes.                                *)
(***************************************************************************)
EXTENDS Integers, Sequences, FiniteSets, TLC

VARIABLES now, users, rooms, snacks, reservations, reservation_snacks, last, inflight,
          password_reset_tokens

vars == <<now, users, rooms, snacks, reservations, reservation_snacks, last, inflight,
         password_reset_tokens>>
db == <<users, rooms, snacks, reservations, reservation_snacks, password_reset_tokens>>

----------------------------------------------------------------------------
\* Bounds of the model.
MaxReservations == 2
MaxNow == 1
MaxVisitors == 11
MaxQuantity == 1
MaxSnacks == 2
MaxUsers == 3
MaxResetTokens == 2
MaxWait == 2

\* Program constants.
MinDuration == 30
MaxDuration == 1440
MinutesPerHour == 60


\* The rooms the requests name.
RequestRoomIds == {"r1", "r2"}
UserIds == {"a1", "u1"}
\* The ids uuid.New() hands to registered users.
NewUserIds == {"u2", "u3"}
\* The tokens generateResetToken draws.
ResetTokens == {"k1", "k2", "k3", "k4", "k5", "k6"}
UnknownUser == "u9"
UnknownSnack == "s9"
\* The requests that may be in a CreateReservation transaction at a time.
TxIds == {"t1", "t2"}

RoomStatusEnum == {"available", "maintenance", "occupied"}
ReservationStatusEnum == {"pending", "confirmed", "cancelled", "completed"}

----------------------------------------------------------------------------
\* IsValid with the case of "completed" left out.
IsValid_NoCompleted(s) == s \in {"pending", "confirmed", "cancelled"}

\* IsValid accepting every status that is given.
IsValid_AnyGiven(s) == s /= ""

\* ReservationStatus.IsValid
IsValid(s) == s \in {"pending", "confirmed", "cancelled", "completed"}

\* The overlap query without its third alternative (a reservation inside the
\* candidate window).
OverlappingRows_NoInside(room_id, S, E) ==
    {i \in DOMAIN reservations :
        /\ reservations[i].room_id = room_id
        /\ reservations[i].status /= "cancelled"
        /\ \/ (reservations[i].start_time <= S /\ reservations[i].end_time > S)
           \/ (reservations[i].start_time < E /\ reservations[i].end_time >= E)}

\* The overlap query counting cancelled reservations too.
OverlappingRows_Cancelled(room_id, S, E) ==
    {i \in DOMAIN reservations :
        /\ reservations[i].room_id = room_id
        /\ \/ (reservations[i].start_time <= S /\ reservations[i].end_time > S)
           \/ (reservations[i].start_time < E /\ reservations[i].end_time >= E)
           \/ (reservations[i].start_time >= S /\ reservations[i].end_time <= E)}

\* The rows the overlap query of CreateReservation counts.
OverlappingRows(room_id, S, E) ==
    {i \in DOMAIN reservations :
        /\ reservations[i].room_id = room_id
        /\ reservations[i].status /= "cancelled"
        /\ \/ (reservations[i].start_time <= S /\ reservations[i].end_time > S)
           \/ (reservations[i].start_time < E /\ reservations[i].end_time >= E)
           \/ (reservations[i].start_time >= S /\ reservations[i].end_time <= E)}

OverlappingCount(room_id, S, E) == Cardinality(OverlappingRows(room_id, S, E))

\* The time checks refusing a window of exactly the minimum duration.
TimeError_MinExclusive(req, t) ==
    IF req.start_time < t THEN "reservation start time must be in the future"
    ELSE IF ~(req.end_time > req.start_time)
        THEN "reservation end time must be after start time"
    ELSE IF req.end_time - req.start_time <= MinDuration
        THEN "reservation must be at least 30 minutes long"
    ELSE IF req.end_time - req.start_time > MaxDuration
        THEN "reservation cannot exceed 24 hours"
    ELSE ""

\* The time checks CreateReservation and CalculateReservationCost start with
\* (the same lines in both); "" when the window passes.
TimeError(req, t) ==
    IF req.start_time < t THEN "reservation start time must be in the future"
    ELSE IF ~(req.end_time > req.start_time)
        THEN "reservation end time must be after start time"
    ELSE IF req.end_time - req.start_time < MinDuration
        THEN "reservation must be at least 30 minutes long"
    ELSE IF req.end_time - req.start_time > MaxDuration
        THEN "reservation cannot exceed 24 hours"
    ELSE ""

\* A float64 amount of cents hundredths and sixtieths / 60 of a hundredth.
Amount(cents, sixtieths) == [cents |-> cents, sixtieths |-> sixtieths]

\* The total of a response body that has none.
NoAmount == Amount(0, 0)

\* amount > 0
Positive(amount) == amount.cents > 0 \/ (amount.cents = 0 /\ amount.sixtieths > 0)

\* roomCost := pricePerHour * hours, with hours = minutes / 60.
RoomCost(pricePerHour, req) ==
    LET minutes == req.end_time - req.start_time
        part == (pricePerHour % MinutesPerHour) * minutes
    IN  Amount((pricePerHour \div MinutesPerHour) * minutes + part \div MinutesPerHour,
               part % MinutesPerHour)

\* totalCost := roomCost + totalSnackCost, the snack cost being whole hundredths.
TotalCost(roomCost, totalSnackCost) ==
    Amount(roomCost.cents + totalSnackCost, roomCost.sixtieths)

\* Index of the first request line that names snack id s (the inner loop
\* breaks at the first match).
FirstLine(lines, s) ==
    CHOOSE i \in 1..Len(lines) :
        /\ lines[i].snack_id = s
        /\ \A j \in 1..(i - 1) : lines[j].snack_id /= s

\* The snack rows "WHERE id = ANY(snackIDs)" returns, each with the quantity of
\* the first request line naming it.
MatchedSnacks(req) ==
    {[snack_id |-> s,
      quantity |-> req.snacks[FirstLine(req.snacks, s)].quantity,
      price    |-> snacks[s]] :
        s \in {x \in DOMAIN snacks : \E i \in 1..Len(req.snacks) : req.snacks[i].snack_id = x}}

RECURSIVE SumSubtotals(_)
SumSubtotals(S) ==
    IF S = {} THEN 0
    ELSE LET x == CHOOSE y \in S : TRUE
         IN  x.price * x.quantity + SumSubtotals(S \ {x})

\* totalSnackCost, in hundredths.
TotalSnackCost(req) == SumSubtotals(MatchedSnacks(req))

\* An amount written as a decimal, as a DECIMAL(10,2) column stores it: rounded
\* to the nearest hundredth, halves up.
ToDecimal(amount) ==
    IF 2 * amount.sixtieths >= MinutesPerHour THEN amount.cents + 1 ELSE amount.cents

\* The values a DECIMAL(10,2) column may hold for a total the service computed
\* in float64.  The float64 result is within a few units in the last place of
\* the exact total, so it rounds as the exact total does unless that lies
\* midway between two hundredths: then the float64 result lies at the midpoint
\* or a hair under it (0.05 * 0.5 is 0.025, 0.05 * 0.5 + 0.06 is
\* 0.08499999999999999), and either hundredth is stored.
StoredTotals(amount) ==
    IF 2 * amount.sixtieths = MinutesPerHour THEN {amount.cents, amount.cents + 1}
    ELSE {ToDecimal(amount)}

----------------------------------------------------------------------------
\* What the last request was answered with: the operation, the HTTP status,
\* the service's error message ("" for none; a formatted value is left as its
\* verb), the total_cost of the response body (NoAmount when the body has
\* none), and whether the service began its transaction.
Response(op, status, err, total, tx) ==
    [op |-> op, status |-> status, err |-> err, total |-> total, tx |-> tx]

\* The rows SeedUsers inserts, under the ids uuid.New() hands out.
SeededUsers(admin, user1) ==
    [u \in {admin, user1} |->
        IF u = admin
        THEN [username |-> "admin", email |-> "admin@example.com",
              role |-> "admin", status |-> "active",
              password |-> "admin123", language |-> ""]
        ELSE [username |-> "user1", email |-> "user1@example.com",
              role |-> "user", status |-> "active",
              password |-> "password123", language |-> ""]]

\* The rows SeedRooms inserts, under the ids uuid.New() hands out.
SeededRooms(a, b, c) ==
    [r \in {a, b, c} |->
        CASE r = a -> [capacity |-> 10, price_per_hour |-> 10000000, status |-> "available"]
          [] r = b -> [capacity |-> 20, price_per_hour |-> 20000000, status |-> "available"]
          [] r = c -> [capacity |-> 15, price_per_hour |-> 15000000, status |-> "available"]]

Init ==
    /\ now = 0
    /\ users = SeededUsers("a1", "u1")
    /\ rooms = SeededRooms("r1", "r2", "r3")
    /\ snacks = <<>>
    /\ reservations = <<>>
    /\ reservation_snacks = {}
    /\ last = Response("init", 0, "", NoAmount, FALSE)
    /\ inflight = [t \in TxIds |-> [pc |-> "idle"]]
    /\ password_reset_tokens = {}

\* time.Now() moves on between requests.
Tick ==
    /\ now < 15 * MaxNow
    /\ now' = now + 15
    /\ UNCHANGED <<users, rooms, snacks, reservations, reservation_snacks, last, inflight,
            password_reset_tokens>>

----------------------------------------------------------------------------
\* The capacity check comparing with one visitor too many.
ExceedsCapacity_OffByOne(req) == req.visitor_count > rooms[req.room_id].capacity + 1

\* req.VisitorCount > roomCapacity
ExceedsCapacity(req) == req.visitor_count > rooms[req.room_id].capacity

\* ReservationService.CreateReservation up to its overlap query: the error it
\* returns ("" for none) and whether it began a transaction.  Each check reads
\* the rows committed so far.
CreateReservationChecks(req) ==
    LET terr == TimeError(req, now) IN
    IF terr /= "" THEN [err |-> terr, tx |-> FALSE]
    ELSE IF ~(req.room_id \in DOMAIN rooms /\ rooms[req.room_id].status = "available")
        THEN [err |-> "room not found or inactive", tx |-> TRUE]
    ELSE IF ExceedsCapacity(req)
        THEN [err |-> "visitor count exceeds room capacity of %d", tx |-> TRUE]
    ELSE IF OverlappingCount(req.room_id, req.start_time, req.end_time) > 0
        THEN [err |-> "room is already booked for the selected time period", tx |-> TRUE]
    ELSE [err |-> "", tx |-> TRUE]

\* ReservationService.CreateReservation after its overlap query, with the rate
\* pricePerHour it read from the room row: the error it returns, the total
\* cost and the snack orders it inserts.
CreateReservationInserts(req, pricePerHour) ==
    LET fail(e) == [err |-> e, total |-> NoAmount, lines |-> {}] IN
    \* INSERT INTO reservations: reservations_user_id_fkey, reservations_room_id_fkey
    IF req.room_id \notin DOMAIN rooms \/ req.user_id \notin DOMAIN users
        THEN fail("error creating reservation: %v")
    \* INSERT INTO reservation_snacks: CHECK (quantity > 0)
    ELSE IF \E l \in MatchedSnacks(req) : ~(l.quantity > 0)
        THEN fail("error creating snack order: %v")
    ELSE [err   |-> "",
          total |-> TotalCost(RoomCost(pricePerHour, req), TotalSnackCost(req)),
          lines |-> MatchedSnacks(req)]

\* ReservationService.CreateReservation for a request served alone: the error
\* it returns, the total cost, the snack orders it inserts, whether it began a
\* transaction.
CreateReservationService(req) ==
    LET c == CreateReservationChecks(req) IN
    IF c.err /= "" THEN [err |-> c.err, total |-> NoAmount, lines |-> {}, tx |-> c.tx]
    ELSE LET i == CreateReservationInserts(req, rooms[req.room_id].price_per_hour) IN
         [err |-> i.err, total |-> i.total, lines |-> i.lines, tx |-> TRUE]

\* ReservationHandler.CreateReservation: the status for a service error.
CreateReservationStatus(err) ==
    IF err = "" THEN 201
    ELSE IF err = "room not found or inactive" THEN 404
    ELSE IF err = "visitor count exceeds room capacity" THEN 400
    ELSE IF err = "room is already booked for the selected time period" THEN 409
    ELSE 500

\* binding tags of models.CreateReservationRequest
BindCreateReservation(req) == req.visitor_count >= 1

\* The row "INSERT INTO reservations" stores for req at the price price.
ReservationRow(req, price) ==
    [room_id       |-> req.room_id,
     user_id       |-> req.user_id,
     start_time    |-> req.start_time,
     end_time      |-> req.end_time,
     visitor_count |-> req.visitor_count,
     price         |-> price,
     status        |-> "pending"]

\* The rows "INSERT INTO reservation_snacks" stores for the snack orders lines
\* of the reservation the next INSERT makes.
SnackRows(lines) ==
    {[reservation_id |-> Len(reservations) + 1,
      snack_id       |-> l.snack_id,
      quantity       |-> l.quantity,
      price          |-> l.price] : l \in lines}

\* ReservationHandler.CreateReservation for a request served alone: the
\* response, and the reservations and reservation_snacks tables once the
\* request is answered.  There is one outcome, but for a total midway between
\* two hundredths, where the stored price is either.
CreateReservationResults(req) ==
    LET keep(resp) == {[resp |-> resp, reservations |-> reservations,
                        reservation_snacks |-> reservation_snacks]}
        r == CreateReservationService(req)
    IN
    IF ~BindCreateReservation(req)
        THEN keep(Response("CreateReservation", 400, "binding", NoAmount, FALSE))
    ELSE IF req.end_time < req.start_time
        THEN keep(Response("CreateReservation", 400,
                           "end time must be after start time", NoAmount, FALSE))
    ELSE IF r.err /= ""
        THEN keep(Response("CreateReservation", CreateReservationStatus(r.err),
                           r.err, NoAmount, r.tx))
    ELSE {[resp |-> Response("CreateReservation", 201, "", r.total, TRUE),
           reservations |-> Append(reservations, ReservationRow(req, price)),
           reservation_snacks |-> reservation_snacks \cup SnackRows(r.lines)] :
              price \in StoredTotals(r.total)}

\* The transactions of CreateReservation that passed the overlap query.
Creating == {u \in TxIds : inflight[u].pc \in {"counted", "priced", "inserted"}}

\* The tables as a transaction leaves them when its writes were inserted
\* without being held back until the commit.
Rollback_KeepsWritten(t) ==
    IF inflight[t].pc /= "inserted"
    THEN [reservations |-> reservations, reservation_snacks |-> reservation_snacks]
    ELSE [reservations |-> Append(reservations, inflight[t].written.row[1]),
          reservation_snacks |-> reservation_snacks \cup SnackRows(inflight[t].written.lines)]

\* defer tx.Rollback(): the rows the transaction t wrote are discarded, the
\* tables stay as committed.
Rollback(t) == [reservations |-> reservations, reservation_snacks |-> reservation_snacks]

\* CreateReservation ends with the error err: the deferred rollback runs and
\* the handler answers.
FailCreateReservation(t, err) ==
    /\ reservations' = Rollback(t).reservations
    /\ reservation_snacks' = Rollback(t).reservation_snacks
    /\ inflight' = [inflight EXCEPT ![t] = [pc |-> "idle"]]
    /\ last' = Response("CreateReservation", CreateReservationStatus(err), err, NoAmount, TRUE)

\* POST /reservation up to s.db.Begin(), as the transaction t: the binding,
\* the handler's check and the time checks of the service, which read the
\* clock and no row.  A request that fails one of them is answered; a request
\* that passes begins its transaction, and other requests are served between
\* its statements.
BeginCreateReservation(t, req) ==
    LET terr == TimeError(req, now)
        answer(status, err) ==
            /\ last' = Response("CreateReservation", status, err, NoAmount, FALSE)
            /\ UNCHANGED inflight
    IN
    /\ inflight[t].pc = "idle"
    /\ IF ~BindCreateReservation(req) THEN answer(400, "binding")
       ELSE IF req.end_time < req.start_time
           THEN answer(400, "end time must be after start time")
       ELSE IF terr /= "" THEN answer(CreateReservationStatus(terr), terr)
       ELSE /\ inflight' = [inflight EXCEPT ![t] = [pc |-> "begun", req |-> req]]
            /\ UNCHANGED last
    /\ UNCHANGED <<now, users, rooms, snacks, reservations, reservation_snacks,
            password_reset_tokens>>

\* The room query of the transaction t, "SELECT capacity, price_per_hour FROM
\* rooms WHERE id = $1 AND status = 'available'" on the rows committed by now,
\* and the comparison of the visitor count with the capacity read.
SelectRoom(t) ==
    LET req == inflight[t].req IN
    /\ inflight[t].pc = "begun"
    /\ IF ~(req.room_id \in DOMAIN rooms /\ rooms[req.room_id].status = "available")
       THEN FailCreateReservation(t, "room not found or inactive")
       ELSE IF ExceedsCapacity(req)
       THEN FailCreateReservation(t, "visitor count exceeds room capacity of %d")
       ELSE /\ inflight' = [inflight EXCEPT ![t] =
                   [pc |-> "room", req |-> req,
                    roomCapacity |-> rooms[req.room_id].capacity,
                    pricePerHour |-> rooms[req.room_id].price_per_hour]]
            /\ UNCHANGED <<last, reservations, reservation_snacks>>
    /\ UNCHANGED <<now, users, rooms, snacks, password_reset_tokens>>

\* The overlap query of the transaction t, "SELECT COUNT(*) FROM reservations
\* ..." on the rows committed by now.  seen is the number of rows of
\* reservations the query looked at.
CountOverlapping(t) ==
    LET req == inflight[t].req IN
    /\ inflight[t].pc = "room"
    /\ IF OverlappingCount(req.room_id, req.start_time, req.end_time) > 0
       THEN FailCreateReservation(t, "room is already booked for the selected time period")
       ELSE /\ Len(reservations) + Cardinality(Creating) < MaxReservations
            /\ inflight' = [inflight EXCEPT ![t] =
                   [pc |-> "counted", req |-> req,
                    roomCapacity |-> inflight[t].roomCapacity,
                    pricePerHour |-> inflight[t].pricePerHour,
                    seen |-> Len(reservations)]]
            /\ UNCHANGED <<last, reservations, reservation_snacks>>
    /\ UNCHANGED <<now, users, rooms, snacks, password_reset_tokens>>

\* The snacks query of the transaction t, "SELECT id, name, price FROM snacks
\* WHERE id = ANY($1)" on the rows committed by now, and the costs computed
\* from it and from the rate read by the room query.
SelectSnacks(t) ==
    LET req == inflight[t].req IN
    /\ inflight[t].pc = "counted"
    /\ inflight' = [inflight EXCEPT ![t] =
           [pc |-> "priced", req |-> req,
            roomCapacity |-> inflight[t].roomCapacity,
            pricePerHour |-> inflight[t].pricePerHour,
            seen |-> inflight[t].seen,
            total |-> TotalCost(RoomCost(inflight[t].pricePerHour, req), TotalSnackCost(req)),
            todo |-> MatchedSnacks(req)]]
    /\ UNCHANGED <<now, users, rooms, snacks, reservations, reservation_snacks, last,
            password_reset_tokens>>

\* "INSERT INTO reservations" of the transaction t, which fails on a user_id
\* or room_id that no committed row has.  The inserted row is held by the
\* transaction, and so are the rows of its room and user it refers to.
InsertReservation(t) ==
    LET req == inflight[t].req IN
    /\ inflight[t].pc = "priced"
    /\ IF req.room_id \notin DOMAIN rooms \/ req.user_id \notin DOMAIN users
       THEN FailCreateReservation(t, "error creating reservation: %v")
       ELSE /\ \E price \in StoredTotals(inflight[t].total) :
                   inflight' = [inflight EXCEPT ![t] =
                       [pc |-> "inserted", req |-> req,
                        roomCapacity |-> inflight[t].roomCapacity,
                        pricePerHour |-> inflight[t].pricePerHour,
                        seen |-> inflight[t].seen,
                        total |-> inflight[t].total,
                        todo |-> inflight[t].todo,
                        written |-> [row |-> <<ReservationRow(req, price)>>,
                                     lines |-> {}]]]
            /\ UNCHANGED <<last, reservations, reservation_snacks>>
    /\ UNCHANGED <<now, users, rooms, snacks, password_reset_tokens>>

\* One turn of "for _, snack := range snacks": "INSERT INTO
\* reservation_snacks" for a snack row not yet inserted (the rows come in the
\* order the snacks query returned them), which fails on CHECK (quantity > 0).
InsertSnackOrder(t) ==
    /\ inflight[t].pc = "inserted"
    /\ \E l \in inflight[t].todo :
          IF ~(l.quantity > 0)
          THEN FailCreateReservation(t, "error creating snack order: %v")
          ELSE /\ inflight' = [inflight EXCEPT
                      ![t].todo = @ \ {l},
                      ![t].written.lines = @ \cup {l}]
               /\ UNCHANGED <<last, reservations, reservation_snacks>>
    /\ UNCHANGED <<now, users, rooms, snacks, password_reset_tokens>>

\* tx.Commit() once every snack order is inserted: the rows the transaction
\* holds are stored, or the commit fails and nothing is.
Commit(t, ok) ==
    /\ inflight[t].pc = "inserted"
    /\ inflight[t].todo = {}
    /\ IF ok
       THEN /\ reservations' = Append(reservations, inflight[t].written.row[1])
            /\ reservation_snacks' = reservation_snacks \cup SnackRows(inflight[t].written.lines)
            /\ inflight' = [inflight EXCEPT ![t] = [pc |-> "idle"]]
            /\ last' = Response("CreateReservation", 201, "", inflight[t].total, TRUE)
       ELSE FailCreateReservation(t, "error committing transaction: %v")
    /\ UNCHANGED <<now, users, rooms, snacks, password_reset_tokens>>

\* ReservationService.CalculateReservationCost for a request served alone.
CalculateReservationCostService(req) ==
    LET terr == TimeError(req, now) IN
    IF terr /= "" THEN [err |-> terr, total |-> NoAmount, tx |-> FALSE]
    ELSE IF ~(req.room_id \in DOMAIN rooms /\ rooms[req.room_id].status = "available")
        THEN [err |-> "room not found or inactive", total |-> NoAmount, tx |-> TRUE]
    ELSE [err   |-> "",
          total |-> TotalCost(RoomCost(rooms[req.room_id].price_per_hour, req),
                             TotalSnackCost(req)),
          tx    |-> TRUE]

\* ReservationHandler.CalculateReservationCost: the status for a service error.
CalculateReservationCostStatus(err) ==
    IF err = "" THEN 200
    ELSE IF err = "room not found or inactive" THEN 404
    ELSE 500

\* ReservationHandler.CalculateReservationCost for a request served alone: the
\* response.
CalculateReservationCostResult(req) ==
    LET r == CalculateReservationCostService(req) IN
    IF req.end_time < req.start_time
        THEN Response("CalculateReservationCost", 400,
                      "end time must be after start time", NoAmount, FALSE)
    ELSE Response("CalculateReservationCost", CalculateReservationCostStatus(r.err),
                  r.err, r.total, r.tx)

\* CalculateReservationCost ends with the error err: the deferred rollback
\* runs and the handler answers.
FailCalculateReservationCost(t, err) ==
    /\ inflight' = [inflight EXCEPT ![t] = [pc |-> "idle"]]
    /\ last' = Response("CalculateReservationCost", CalculateReservationCostStatus(err),
                        err, NoAmount, TRUE)

\* POST /reservation/calculation up to s.db.Begin(), as the transaction t:
\* the handler's check and the time checks of the service, which read the
\* clock and no row.
BeginCalculateReservationCost(t, req) ==
    LET terr == TimeError(req, now)
        answer(status, err) ==
            /\ last' = Response("CalculateReservationCost", status, err, NoAmount, FALSE)
            /\ UNCHANGED inflight
    IN
    /\ inflight[t].pc = "idle"
    /\ IF req.end_time < req.start_time
           THEN answer(400, "end time must be after start time")
       ELSE IF terr /= "" THEN answer(CalculateReservationCostStatus(terr), terr)
       ELSE /\ inflight' = [inflight EXCEPT ![t] = [pc |-> "cost begun", req |-> req]]
            /\ UNCHANGED last
    /\ UNCHANGED <<now, users, rooms, snacks, reservations, reservation_snacks,
            password_reset_tokens>>

\* The room query of the calculation t, "SELECT id, name, price_per_hour FROM
\* rooms WHERE id = $1 AND status = 'available'" on the rows committed by now.
SelectRoomCost(t) ==
    LET req == inflight[t].req IN
    /\ inflight[t].pc = "cost begun"
    /\ IF ~(req.room_id \in DOMAIN rooms /\ rooms[req.room_id].status = "available")
       THEN FailCalculateReservationCost(t, "room not found or inactive")
       ELSE /\ inflight' = [inflight EXCEPT ![t] =
                   [pc |-> "cost room", req |-> req,
                    pricePerHour |-> rooms[req.room_id].price_per_hour]]
            /\ UNCHANGED last
    /\ UNCHANGED <<now, users, rooms, snacks, reservations, reservation_snacks,
            password_reset_tokens>>

\* The snacks query of the calculation t on the rows committed by now, and
\* the total of the response.
SelectSnacksCost(t) ==
    LET req == inflight[t].req IN
    /\ inflight[t].pc = "cost room"
    /\ inflight' = [inflight EXCEPT ![t] =
           [pc |-> "cost priced",
            total |-> TotalCost(RoomCost(inflight[t].pricePerHour, req), TotalSnackCost(req))]]
    /\ UNCHANGED <<now, users, rooms, snacks, reservations, reservation_snacks, last,
            password_reset_tokens>>

\* tx.Commit() of the calculation t and the answer: the total, or the error
\* of a commit that fails.
CommitCalculateReservationCost(t, ok) ==
    /\ inflight[t].pc = "cost priced"
    /\ IF ok
       THEN /\ inflight' = [inflight EXCEPT ![t] = [pc |-> "idle"]]
            /\ last' = Response("CalculateReservationCost", 200, "", inflight[t].total, TRUE)
       ELSE FailCalculateReservationCost(t, "error committing transaction: %v")
    /\ UNCHANGED <<now, users, rooms, snacks, reservations, reservation_snacks,
            password_reset_tokens>>

----------------------------------------------------------------------------
\* ReservationService.UpdateReservationStatus: the error it returns.
UpdateReservationStatusService(req) ==
    IF ~IsValid(req.status)
        THEN "invalid status: must be one of pending, confirmed, cancelled, or completed"
    ELSE IF req.reservation_id \notin DOMAIN reservations
        THEN "reservation not found with ID: %v"
    \* the row is read back joined with its room and its user
    ELSE IF ~(reservations[req.reservation_id].room_id \in DOMAIN rooms
              /\ reservations[req.reservation_id].user_id \in DOMAIN users)
        THEN "error fetching updated reservation: %v"
    ELSE ""

\* ReservationHandler.UpdateReservationStatus: the status for a service error.
UpdateReservationStatusStatus(err) ==
    IF err = "" THEN 200
    ELSE IF err = "reservation not found" THEN 404
    ELSE IF err = "invalid status: must be one of pending, confirmed, cancelled, or completed"
        THEN 400
    ELSE 500

\* binding tags of models.UpdateReservationStatusRequest
BindUpdateReservationStatus(req) == req.status /= ""

\* The UPDATE of the status without "WHERE id = $2": every row is changed.
UpdateReservationStatusResult_EveryRow(req) ==
    LET err == UpdateReservationStatusService(req) IN
    IF ~BindUpdateReservationStatus(req)
        THEN [resp |-> Response("UpdateReservationStatus", 400, "binding", NoAmount, FALSE),
              reservations |-> reservations]
    ELSE [resp |-> Response("UpdateReservationStatus",
                            UpdateReservationStatusStatus(err), err, NoAmount,
                            IsValid(req.status)),
          reservations |->
              IF err = ""
              THEN [i \in DOMAIN reservations |->
                       [reservations[i] EXCEPT !.status = req.status]]
              ELSE reservations]

\* ReservationHandler.UpdateReservationStatus: the response, and the
\* reservations table once the request is answered.
UpdateReservationStatusResult(req) ==
    LET err == UpdateReservationStatusService(req) IN
    IF ~BindUpdateReservationStatus(req)
        THEN [resp |-> Response("UpdateReservationStatus", 400, "binding", NoAmount, FALSE),
              reservations |-> reservations]
    ELSE [resp |-> Response("UpdateReservationStatus",
                            UpdateReservationStatusStatus(err), err, NoAmount,
                            IsValid(req.status)),
          reservations |->
              IF err = ""
              THEN [reservations EXCEPT ![req.reservation_id].status = req.status]
              ELSE reservations]

\* POST /admin/reservation/status
UpdateReservationStatus(req) ==
    LET r == UpdateReservationStatusResult(req) IN
    /\ last' = r.resp
    /\ reservations' = r.reservations
    /\ UNCHANGED <<now, users, rooms, snacks, reservation_snacks, inflight, password_reset_tokens>>

\* ReservationService.GetReservationByID: the error it returns and the
\* total_cost it reports (hundredths).
GetReservationByIDService(id) ==
    IF id \notin DOMAIN reservations
        THEN [err |-> "reservation not found", total_cost |-> 0]
    \* the row is read joined with its room and its user
    ELSE IF ~(reservations[id].room_id \in DOMAIN rooms /\ reservations[id].user_id \in DOMAIN users)
        THEN [err |-> "reservation not found", total_cost |-> 0]
    ELSE [err |-> "", total_cost |-> reservations[id].price]

\* The status for an error of GetReservationByID: not-found errors map to 404.
GetReservationByIDStatus(err) ==
    IF err = "" THEN 200
    ELSE IF err = "reservation not found" THEN 404
    ELSE 500

\* GET /reservation/:id
GetReservationByID(id) ==
    LET r == GetReservationByIDService(id) IN
    /\ last' = Response("GetReservationByID", GetReservationByIDStatus(r.err), r.err,
                        Amount(r.total_cost, 0), TRUE)
    /\ UNCHANGED <<now, users, rooms, snacks, reservations, reservation_snacks, inflight,
            password_reset_tokens>>

----------------------------------------------------------------------------
\* An optional request field: <<>> when the JSON leaves it out, <<v>> otherwise.
Given(f) == Len(f) = 1

\* binding tags of models.UpdateRoomRequest
BindUpdateRoom(req) ==
    /\ Given(req.capacity) => req.capacity[1] >= 1
    /\ Given(req.price_per_hour) => req.price_per_hour[1].cents >= 0
    /\ Given(req.status) => req.status[1] \in {"active", "inactive"}

\* RoomService.UpdateRoom: the row it writes.
UpdatedRoom(id, req) ==
    [capacity       |-> IF Given(req.capacity) THEN req.capacity[1]
                        ELSE rooms[id].capacity,
     \* column price_per_hour is DECIMAL(10,2)
     price_per_hour |-> IF Given(req.price_per_hour) THEN ToDecimal(req.price_per_hour[1])
                        ELSE rooms[id].price_per_hour,
     status         |-> IF Given(req.status) THEN req.status[1] ELSE rooms[id].status]

\* RoomHandler.UpdateRoom: the status for a service error.
UpdateRoomStatus(err) ==
    IF err = "" THEN 200
    ELSE IF err = "room not found" THEN 404
    ELSE 500

\* PUT /admin/rooms/:id up to the SELECT of the room, as the transaction t:
\* the binding, then the row is read and the fields of the request are set in
\* it.  The transaction stays open while other requests are served.
BeginUpdateRoom(t, id, req) ==
    /\ inflight[t].pc = "idle"
    /\ IF ~BindUpdateRoom(req)
       THEN /\ last' = Response("UpdateRoom", 400, "binding", NoAmount, FALSE)
            /\ UNCHANGED inflight
       ELSE IF id \notin DOMAIN rooms
       THEN /\ last' = Response("UpdateRoom", 404, "room not found", NoAmount, TRUE)
            /\ UNCHANGED inflight
       ELSE /\ inflight' = [inflight EXCEPT ![t] =
                   [pc |-> "updating", id |-> id, room |-> UpdatedRoom(id, req)]]
            /\ UNCHANGED last
    /\ UNCHANGED <<now, users, rooms, snacks, reservations, reservation_snacks,
            password_reset_tokens>>

\* The rest of PUT /admin/rooms/:id for the transaction t: the UPDATE, which writes
\* every column of the row read (and no row when the room is gone), and the
\* commit.
CommitUpdateRoom(t) ==
    LET id == inflight[t].id
        \* column status is of type room_status
        err == IF inflight[t].room.status \notin RoomStatusEnum
               THEN "error updating room: %v" ELSE ""
    IN
    /\ inflight[t].pc = "updating"
    /\ last' = Response("UpdateRoom", UpdateRoomStatus(err), err, NoAmount, TRUE)
    /\ rooms' = IF err = "" /\ id \in DOMAIN rooms
                THEN [rooms EXCEPT ![id] = inflight[t].room] ELSE rooms
    /\ inflight' = [inflight EXCEPT ![t] = [pc |-> "idle"]]
    /\ UNCHANGED <<now, users, snacks, reservations, reservation_snacks, password_reset_tokens>>

\* binding tags of models.CreateRoomRequest
BindCreateRoom(req) ==
    /\ req.capacity >= 1
    /\ Positive(req.price_per_hour)
    /\ req.status \in {"active", "inactive"}

\* uuid.New(): an id no room has.
NewRoomId == CHOOSE r \in {"r4"} : r \notin DOMAIN rooms

\* RoomHandler.CreateRoom: the response, and the rooms table once the request
\* is answered.
CreateRoomResult(req) ==
    IF ~BindCreateRoom(req)
        THEN [resp |-> Response("CreateRoom", 400, "binding", NoAmount, FALSE), rooms |-> rooms]
    \* INSERT INTO rooms: column status is of type room_status
    ELSE IF req.status \notin RoomStatusEnum
        THEN [resp |-> Response("CreateRoom", 500, "error creating room: %v", NoAmount, FALSE),
              rooms |-> rooms]
    ELSE [resp |-> Response("CreateRoom", 201, "", NoAmount, FALSE),
          rooms |-> [r \in DOMAIN rooms \cup {NewRoomId} |->
                        IF r \in DOMAIN rooms THEN rooms[r]
                        ELSE [capacity |-> req.capacity,
                              price_per_hour |-> ToDecimal(req.price_per_hour),
                              status |-> req.status]]]

\* POST /admin/rooms
CreateRoom(req) ==
    LET r == CreateRoomResult(req) IN
    /\ last' = r.resp
    /\ rooms' = r.rooms
    /\ UNCHANGED <<now, users, snacks, reservations, reservation_snacks, inflight,
            password_reset_tokens>>

\* The reservations query treating only pending reservations as active.
HasReservations_PendingOnly(id) ==
    \E i \in DOMAIN reservations :
        /\ reservations[i].room_id = id
        /\ reservations[i].status = "pending"

\* SELECT EXISTS(SELECT 1 FROM reservations WHERE room_id = $1 AND status NOT
\* IN ('cancelled', 'completed'))
HasReservations(id) ==
    \E i \in DOMAIN reservations :
        /\ reservations[i].room_id = id
        /\ reservations[i].status \notin {"cancelled", "completed"}

\* DELETE FROM rooms WHERE id = $1: the error RoomService.DeleteRoom returns
\* for it.
DeleteError(id) ==
    \* reservations_room_id_fkey
    IF \E i \in DOMAIN reservations : reservations[i].room_id = id
        THEN "error deleting room: %v"
    ELSE IF id \notin DOMAIN rooms THEN "room not found"
    ELSE ""

\* RoomHandler.DeleteRoom: the status for a service error.
DeleteRoomStatus(err) ==
    IF err = "" THEN 200
    ELSE IF err = "room not found" THEN 404
    ELSE IF err = "cannot delete room with active reservations" THEN 409
    ELSE 500

\* DELETE /admin/rooms/:id up to the reservations query, as the transaction t.
\* A room without an active reservation leaves the transaction open while
\* other requests are served.
BeginDeleteRoom(t, id) ==
    /\ inflight[t].pc = "idle"
    /\ IF HasReservations(id)
       THEN /\ last' = Response("DeleteRoom", 409,
                                "cannot delete room with active reservations",
                                NoAmount, TRUE)
            /\ UNCHANGED inflight
       ELSE /\ inflight' = [inflight EXCEPT ![t] = [pc |-> "deleting", id |-> id]]
            /\ UNCHANGED last
    /\ UNCHANGED <<now, users, rooms, snacks, reservations, reservation_snacks,
            password_reset_tokens>>

\* The rest of DELETE /admin/rooms/:id for the transaction t: the DELETE and the
\* commit.  The DELETE waits while a CreateReservation holds an inserted row
\* that refers to the room (the INSERT locked the room row for its foreign
\* key), and runs once that transaction has ended.
CommitDeleteRoom(t) ==
    LET id == inflight[t].id
        err == DeleteError(id)
    IN
    /\ inflight[t].pc = "deleting"
    /\ ~\E u \in TxIds : inflight[u].pc = "inserted" /\ inflight[u].req.room_id = id
    /\ last' = Response("DeleteRoom", DeleteRoomStatus(err), err, NoAmount, TRUE)
    /\ rooms' = IF err = "" THEN [r \in DOMAIN rooms \ {id} |-> rooms[r]] ELSE rooms
    /\ inflight' = [inflight EXCEPT ![t] = [pc |-> "idle"]]
    /\ UNCHANGED <<now, users, snacks, reservations, reservation_snacks, password_reset_tokens>>

----------------------------------------------------------------------------
\* binding tags of models.CreateSnackRequest
BindCreateSnack(req) == Positive(req.price)

\* uuid.New(): an id no snack has.
NewSnackId == CHOOSE s \in {"s1", "s2", "s3", "s4"} : s \notin DOMAIN snacks

\* SnackHandler.CreateSnack: the response (its tx field tells whether the
\* service was called), and the snacks table once the request is answered.
\* Column price is DECIMAL(10,2): the price is stored rounded.
CreateSnackResult(req) ==
    IF ~BindCreateSnack(req)
        THEN [resp |-> Response("CreateSnack", 400, "binding", NoAmount, FALSE), snacks |-> snacks]
    ELSE IF ~Positive(req.price)
        THEN [resp |-> Response("CreateSnack", 400, "price must be greater than zero",
                                NoAmount, FALSE),
              snacks |-> snacks]
    ELSE [resp |-> Response("CreateSnack", 201, "", NoAmount, TRUE),
          snacks |-> [s \in DOMAIN snacks \cup {NewSnackId} |->
                         IF s \in DOMAIN snacks THEN snacks[s]
                    ELSE ToDecimal(req.price)]]

\* POST /admin/snacks
CreateSnack(req) ==
    LET r == CreateSnackResult(req) IN
    /\ Cardinality(DOMAIN r.snacks) <= MaxSnacks
    /\ last' = r.resp
    /\ snacks' = r.snacks
    /\ UNCHANGED <<now, users, rooms, reservations, reservation_snacks, inflight,
            password_reset_tokens>>

----------------------------------------------------------------------------
\* len(s) for the strings the requests carry.
StringLength(s) ==
    CASE s = "" -> 0
      [] s = "al" -> 2
      [] s = "abc" -> 3
      [] s \in {"admin", "user1", "alice"} -> 5
      [] s \in {"secret1", "secret2"} -> 7
      [] s = "alice@example.com" -> 17
      [] s = "admin@example.com" -> 17
      [] s = "user1@example.com" -> 17

\* The validator's email tag.
IsEmail(s) == s \in {"admin@example.com", "user1@example.com", "alice@example.com"}

\* binding tags of models.RegisterRequest
BindRegister(req) ==
    /\ StringLength(req.username) >= 3 /\ StringLength(req.username) <= 50
    /\ req.email /= "" /\ IsEmail(req.email)
    /\ StringLength(req.password) >= 6
    /\ req.confirm_password /= "" /\ req.confirm_password = req.password

\* AuthService.Register: the error of the INSERT INTO users.
RegisterService(req) ==
    IF \E u \in DOMAIN users : users[u].username = req.username
        THEN "username already exists"
    ELSE IF \E u \in DOMAIN users : users[u].email = req.email
        THEN "email already exists"
    ELSE ""

\* uuid.New(): an id no user has.
NewUserId == CHOOSE u \in NewUserIds : u \notin DOMAIN users

\* The text of a binding error of models.RegisterRequest: it names the
\* eqfield tag when confirm_password is given and differs from password.
RegisterBindingError(req) ==
    IF BindRegister(req) THEN ""
    \* the tags of ConfirmPassword are "required,eqfield=Password": an empty
    \* confirm_password fails on required, and eqfield is not looked at
    ELSE IF req.confirm_password /= "" /\ req.confirm_password /= req.password
        THEN "binding: eqfield"
    ELSE "binding"

\* Register without any comparison of confirm_password with password.
RegisterResult_NoConfirm(req) ==
    LET err == RegisterService(req) IN
    IF ~(/\ StringLength(req.username) >= 3 /\ StringLength(req.username) <= 50
         /\ req.email /= "" /\ IsEmail(req.email)
         /\ StringLength(req.password) >= 6)
        THEN [resp |-> Response("Register", 400, "binding", NoAmount, FALSE), users |-> users]
    ELSE IF err /= ""
        THEN [resp |-> Response("Register", 409, err, NoAmount, TRUE), users |-> users]
    ELSE [resp |-> Response("Register", 201, "", NoAmount, TRUE),
          users |-> [u \in DOMAIN users \cup {NewUserId} |->
                        IF u \in DOMAIN users THEN users[u]
                        ELSE [username |-> req.username, email |-> req.email,
                              role |-> "user", status |-> "active",
                              password |-> req.password, language |-> ""]]]

\* AuthHandler.Register: the response (its tx field tells whether the service
\* was called), and the users table once the request is answered.
RegisterResult(req) ==
    LET err == RegisterService(req) IN
    IF ~BindRegister(req)
        THEN [resp |-> Response("Register", 400, RegisterBindingError(req), NoAmount, FALSE),
              users |-> users]
    ELSE IF req.password /= req.confirm_password
        THEN [resp |-> Response("Register", 400, "passwords do not match", NoAmount, FALSE),
              users |-> users]
    ELSE IF err /= ""
        THEN [resp |-> Response("Register", 409, err, NoAmount, TRUE), users |-> users]
    ELSE [resp |-> Response("Register", 201, "", NoAmount, TRUE),
          users |-> [u \in DOMAIN users \cup {NewUserId} |->
                        IF u \in DOMAIN users THEN users[u]
                        ELSE [username |-> req.username, email |-> req.email,
                              role |-> "user", status |-> "active",
                              password |-> req.password, language |-> ""]]]

\* POST /register
Register(req) ==
    LET r == RegisterResult(req) IN
    /\ Cardinality(DOMAIN r.users) <= MaxUsers
    /\ last' = r.resp
    /\ users' = r.users
    /\ UNCHANGED <<now, rooms, snacks, reservations, reservation_snacks, inflight,
            password_reset_tokens>>

\* binding tags of models.UpdateProfileRequest
BindUpdateProfile(req) ==
    /\ req.email /= "" /\ IsEmail(req.email)
    /\ StringLength(req.username) >= 3 /\ StringLength(req.username) <= 50
    /\ req.password /= "" => StringLength(req.password) >= 6

\* uuid.Parse on the ids the requests carry: every id but NotAUUID parses.
NotAUUID == "x"

IsUUID(id) == id /= NotAUUID

\* The types the field UserID of auth.Claims may have.  The package
\* internal/auth is not among the sources; Login assigns the field a
\* uuid.UUID, the handlers of the profile routes assert that the value the
\* middleware took from it is a string.
ClaimsUserIDTypes == {"string", "uuid.UUID"}

\* c.Set("userID", claims.UserID): the value of the context key userID, with
\* the type of the field.
ContextValue(type, value) == [type |-> type, value |-> value]

\* POST /users/:id for the authenticated user authUserID up to the username
\* query of the service, as the transaction t.  authUserID.(string) panics
\* on a value that is no string: the Recovery middleware of gin.Default()
\* answers 500 and the handler does nothing more.  The id is parsed before
\* the transaction begins.
BeginUpdateProfile(t, authUserID, requestedID, req) ==
    LET answer(status, err, tx) ==
            /\ last' = Response("UpdateProfile", status, err, NoAmount, tx)
            /\ UNCHANGED inflight
    IN
    /\ inflight[t].pc = "idle"
    /\ IF authUserID.type /= "string" THEN answer(500, "panic", FALSE)
       ELSE IF authUserID.value /= requestedID THEN answer(403, "access denied", FALSE)
       ELSE IF ~BindUpdateProfile(req) THEN answer(400, "binding", FALSE)
       ELSE IF ~IsUUID(requestedID) THEN answer(500, "internal server error", FALSE)
       ELSE IF \E u \in DOMAIN users : users[u].username = req.username /\ u /= requestedID
           THEN answer(409, "username already taken", TRUE)
       ELSE /\ inflight' = [inflight EXCEPT ![t] =
                   [pc |-> "username counted", id |-> requestedID, req |-> req]]
            /\ UNCHANGED last
    /\ UNCHANGED <<now, users, rooms, snacks, reservations, reservation_snacks,
            password_reset_tokens>>

\* The email query of UpdateProfile for the transaction t.
CountEmail(t) ==
    LET id == inflight[t].id
        req == inflight[t].req
    IN
    /\ inflight[t].pc = "username counted"
    /\ IF \E u \in DOMAIN users : users[u].email = req.email /\ u /= id
       THEN /\ last' = Response("UpdateProfile", 409, "email already taken", NoAmount, TRUE)
            /\ inflight' = [inflight EXCEPT ![t] = [pc |-> "idle"]]
       ELSE /\ inflight' = [inflight EXCEPT ![t].pc = "email counted"]
            /\ UNCHANGED last
    /\ UNCHANGED <<now, users, rooms, snacks, reservations, reservation_snacks,
            password_reset_tokens>>

\* The rest of UpdateProfile for the transaction t: UPDATE users ...
\* RETURNING, which fails on users_username_unique or users_email_unique when
\* another user took the name or the email since the queries, and returns no
\* row to scan when the user is gone; then the commit.
CommitUpdateProfile(t) ==
    LET id == inflight[t].id
        req == inflight[t].req
        ok == /\ id \in DOMAIN users
              /\ \A u \in DOMAIN users \ {id} :
                     users[u].username /= req.username /\ users[u].email /= req.email
    IN
    /\ inflight[t].pc = "email counted"
    /\ IF ok
       THEN /\ last' = Response("UpdateProfile", 200, "", NoAmount, TRUE)
            /\ users' = [users EXCEPT ![id].username = req.username,
                                      ![id].email = req.email,
                                      ![id].language = req.language,
                                      ![id].password =
                                          IF req.password /= "" THEN req.password ELSE @]
       ELSE /\ last' = Response("UpdateProfile", 500, "internal server error", NoAmount, TRUE)
            /\ UNCHANGED users
    /\ inflight' = [inflight EXCEPT ![t] = [pc |-> "idle"]]
    /\ UNCHANGED <<now, rooms, snacks, reservations, reservation_snacks, password_reset_tokens>>

----------------------------------------------------------------------------
\* generateResetToken: a token no row of password_reset_tokens has and no
\* request in flight generated.
NewResetToken ==
    CHOOSE k \in ResetTokens :
        /\ \A row \in password_reset_tokens : row.token /= k
        /\ \A t \in TxIds :
               inflight[t].pc \in {"user selected", "invalidated"} => inflight[t].token /= k

\* RequestPasswordReset without the UPDATE that invalidates the user's
\* earlier tokens.
InvalidatedTokens_None(userID) == {}

\* UPDATE password_reset_tokens SET used = true WHERE user_id = $1 AND used =
\* false: the tokens of the rows it matches among the rows committed so far.
InvalidatedTokens(userID) ==
    {row.token : row \in {x \in password_reset_tokens : x.user_id = userID /\ ~x.used}}

\* AuthHandler.RequestPasswordReset for a request served alone: the status and
\* the body of its response, and whether the service began a transaction.
RequestPasswordResetResult(email) ==
    LET found == {u \in DOMAIN users : users[u].email = email /\ users[u].status = "active"} IN
    IF ~(email /= "" /\ IsEmail(email))
        THEN [status |-> 400, message |-> "Invalid email format", reset_link |-> "",
              tx |-> FALSE]
    ELSE IF found = {}
        THEN [status |-> 200,
              message |-> "If your email is registered, you will receive a password reset link",
              reset_link |-> "", tx |-> FALSE]
    ELSE [status |-> 200,
          message |-> "Password reset link has been generated",
          reset_link |-> NewResetToken, tx |-> TRUE]

\* POST /password/reset_request up to s.db.Begin(), as the transaction t: the
\* binding, the query of the user by email, run on the pool, and the token
\* generated for the user found.  A request without a user to reset is
\* answered.
BeginRequestPasswordReset(t, email) ==
    LET r == RequestPasswordResetResult(email)
        userID == CHOOSE u \in DOMAIN users :
                      users[u].email = email /\ users[u].status = "active"
    IN
    /\ inflight[t].pc = "idle"
    /\ IF ~r.tx
       THEN /\ last' = Response("RequestPasswordReset", r.status, r.message, NoAmount, FALSE)
            /\ UNCHANGED inflight
       ELSE /\ inflight' = [inflight EXCEPT ![t] =
                   [pc |-> "user selected", user_id |-> userID, token |-> r.reset_link,
                    message |-> r.message]]
            /\ UNCHANGED last
    /\ UNCHANGED <<now, users, rooms, snacks, reservations, reservation_snacks,
            password_reset_tokens>>

\* s.db.Begin() and the UPDATE of the user's unused tokens for the
\* transaction t: the rows it matches among the rows committed by now are
\* marked used when the transaction commits.
InvalidateTokens(t) ==
    /\ inflight[t].pc = "user selected"
    /\ inflight' = [inflight EXCEPT ![t] =
           [pc |-> "invalidated", user_id |-> inflight[t].user_id,
            token |-> inflight[t].token, message |-> inflight[t].message,
            matched |-> InvalidatedTokens(inflight[t].user_id)]]
    /\ UNCHANGED <<now, users, rooms, snacks, reservations, reservation_snacks, last,
            password_reset_tokens>>

\* The rest of POST /password/reset_request for the transaction t: the INSERT
\* of the new token, the commit and the answer.
CommitRequestPasswordReset(t) ==
    /\ inflight[t].pc = "invalidated"
    /\ Cardinality(password_reset_tokens) < MaxResetTokens
    /\ password_reset_tokens' =
           {IF row.token \in inflight[t].matched THEN [row EXCEPT !.used = TRUE] ELSE row :
                row \in password_reset_tokens}
           \cup {[user_id |-> inflight[t].user_id, token |-> inflight[t].token,
                  expires_at |-> now + 15, used |-> FALSE]}
    /\ last' = Response("RequestPasswordReset", 200, inflight[t].message, NoAmount, TRUE)
    /\ inflight' = [inflight EXCEPT ![t] = [pc |-> "idle"]]
    /\ UNCHANGED <<now, users, rooms, snacks, reservations, reservation_snacks>>

\* binding tags of models.PasswordResetConfirmRequest, the token being the
\* one of the query string or of the body.
BindResetPassword(req) ==
    /\ req.token /= ""
    /\ StringLength(req.new_password) >= 6
    /\ req.confirm_password /= "" /\ req.confirm_password = req.new_password

\* The rows "WHERE token = $1 AND used = false" selects.
UnusedTokenRows(token) ==
    {row \in password_reset_tokens : row.token = token /\ ~row.used}

\* The token query selecting used rows as well.
ResetPasswordService_AnyToken(req) ==
    LET found == {row \in password_reset_tokens : row.token = req.token} IN
    IF found = {} THEN "invalid or expired reset token"
    ELSE IF now > (CHOOSE row \in found : TRUE).expires_at THEN "reset token has expired"
    ELSE ""

\* The service without its check of the expiry time.
ResetPasswordService_NoExpiry(req) ==
    IF UnusedTokenRows(req.token) = {} THEN "invalid or expired reset token"
    ELSE ""

\* AuthService.ResetPassword: the error it returns ("" for none).
ResetPasswordService(req) ==
    IF UnusedTokenRows(req.token) = {} THEN "invalid or expired reset token"
    \* time.Now().After(resetToken.ExpiresAt)
    ELSE IF now > (CHOOSE row \in UnusedTokenRows(req.token) : TRUE).expires_at
        THEN "reset token has expired"
    ELSE ""

\* POST /password/reset up to the expiry check of the service, as the
\* transaction t: the binding, then the token row is read.  A request whose
\* token is unused and not expired leaves the transaction open while other
\* requests are served.
BeginResetPassword(t, req) ==
    LET err == ResetPasswordService(req) IN
    /\ inflight[t].pc = "idle"
    /\ IF ~BindResetPassword(req)
       THEN /\ last' = Response("ResetPassword", 400, "binding", NoAmount, FALSE)
            /\ UNCHANGED inflight
       ELSE IF err /= ""
       THEN /\ last' = Response("ResetPassword", 401, err, NoAmount, TRUE)
            /\ UNCHANGED inflight
       ELSE /\ inflight' = [inflight EXCEPT ![t] =
                   [pc |-> "selected",
                    resetToken |-> CHOOSE row \in password_reset_tokens :
                                       row.token = req.token,
                    new_password |-> req.new_password]]
            /\ UNCHANGED last
    /\ UNCHANGED <<now, users, rooms, snacks, reservations, reservation_snacks,
            password_reset_tokens>>

\* The rest of POST /password/reset for the transaction t: the UPDATE of the
\* password, the UPDATE of the token row by its id, whatever its used column
\* holds by now, the commit and the answer.
CommitResetPassword(t) ==
    LET resetToken == inflight[t].resetToken IN
    /\ inflight[t].pc = "selected"
    /\ users' = [u \in DOMAIN users |->
                    IF u = resetToken.user_id
                    THEN [users[u] EXCEPT !.password = inflight[t].new_password]
                    ELSE users[u]]
    /\ password_reset_tokens' =
           {IF row.token = resetToken.token THEN [row EXCEPT !.used = TRUE] ELSE row :
                row \in password_reset_tokens}
    /\ last' = Response("ResetPassword", 200, "", NoAmount, TRUE)
    /\ inflight' = [inflight EXCEPT ![t] = [pc |-> "idle"]]
    /\ UNCHANGED <<now, rooms, snacks, reservations, reservation_snacks>>

\* time.Now() moves on while a reset link is outstanding, past its expiry.
Wait ==
    /\ now < 15 * MaxWait
    /\ now' = now + 15
    /\ UNCHANGED <<users, rooms, snacks, reservations, reservation_snacks, last, inflight,
            password_reset_tokens>>

----------------------------------------------------------------------------
\* strings.ToLower on the first word of an Authorization header.
ToLower(s) ==
    CASE s = "Bearer" -> "bearer"
      [] s = "bearer" -> "bearer"
      [] s = "Basic" -> "basic"

\* jwt.ParseWithClaims with the HMAC key: the token parses, its method is
\* HMAC, its signature verifies and it has not expired.
TokenValid(token) ==
    /\ token.wellformed
    /\ token.alg \in {"HS256", "HS384", "HS512"}
    /\ token.signed
    /\ ~token.expired

\* JWTAuthMiddleware: the error it aborts with ("" when it calls c.Next()).
\* An Authorization header is the sequence of its words, <<>> when missing.
JWTAuthMiddleware(header) ==
    IF header = <<>> THEN "authorization header required"
    ELSE IF Len(header) /= 2 \/ ToLower(header[1]) /= "bearer"
        THEN "invalid authorization header format"
    ELSE IF ~TokenValid(header[2]) THEN "invalid token"
    ELSE ""

\* The admin check passing every role.
AdminOnlyMiddleware_AnyRole(claims) == ""

\* AdminOnlyMiddleware: the error it aborts with ("" when it calls c.Next()).
AdminOnlyMiddleware(claims) ==
    IF claims.role /= "admin" THEN "forbidden: admin access required"
    ELSE ""

\* A route of the group adminProtected: both middlewares, then the handler.
AdminRoute(header, op, Handler) ==
    IF JWTAuthMiddleware(header) /= ""
        THEN /\ last' = Response(op, 401, JWTAuthMiddleware(header), NoAmount, FALSE)
             /\ UNCHANGED <<now, users, rooms, snacks, reservations, reservation_snacks,
                            inflight, password_reset_tokens>>
    ELSE IF AdminOnlyMiddleware(header[2]) /= ""
        THEN /\ last' = Response(op, 403, AdminOnlyMiddleware(header[2]), NoAmount, FALSE)
             /\ UNCHANGED <<now, users, rooms, snacks, reservations, reservation_snacks,
                            inflight, password_reset_tokens>>
    ELSE Handler

\* POST /admin/rooms
AdminCreateRoom(header, req) == AdminRoute(header, "CreateRoom", CreateRoom(req))

\* PUT /admin/rooms/:id
AdminUpdateRoom(header, t, id, req) ==
    AdminRoute(header, "UpdateRoom", BeginUpdateRoom(t, id, req))

\* DELETE /admin/rooms/:id
AdminDeleteRoom(header, t, id) == AdminRoute(header, "DeleteRoom", BeginDeleteRoom(t, id))

\* POST /admin/snacks
AdminCreateSnack(header, req) == AdminRoute(header, "CreateSnack", CreateSnack(req))

\* POST /admin/reservation/status
AdminUpdateReservationStatus(header, req) ==
    AdminRoute(header, "UpdateReservationStatus", UpdateReservationStatus(req))

----------------------------------------------------------------------------
\* UserService.GetProfile: the error it returns ("" for none).
GetProfileService(userID) ==
    IF ~IsUUID(userID) THEN "invalid user ID format: %v"
    ELSE IF userID \notin DOMAIN users THEN "user not found"
    ELSE ""

\* UserHandler.GetProfile once the context value is taken for the string
\* authUserID: the response (its tx field tells whether the service was
\* called) and the profile of its body, <<>> when the body has none.
GetProfileResult(authUserID, requestedID) ==
    LET err == GetProfileService(requestedID) IN
    IF authUserID /= requestedID
        THEN [resp |-> Response("GetProfile", 403, "access denied", NoAmount, FALSE),
              profile |-> <<>>]
    ELSE IF err = "user not found"
        THEN [resp |-> Response("GetProfile", 404, err, NoAmount, TRUE), profile |-> <<>>]
    ELSE IF err = "invalid user ID format"
        THEN [resp |-> Response("GetProfile", 400, err, NoAmount, TRUE), profile |-> <<>>]
    ELSE IF err /= ""
        THEN [resp |-> Response("GetProfile", 500, "internal server error", NoAmount, TRUE),
              profile |-> <<>>]
    ELSE [resp |-> Response("GetProfile", 200, "", NoAmount, TRUE),
          profile |-> <<[id       |-> requestedID,
                         username |-> users[requestedID].username,
                         email    |-> users[requestedID].email,
                         role     |-> users[requestedID].role,
                         status   |-> users[requestedID].status,
                         language |-> users[requestedID].language]>>]

\* GET /users/:id for the authenticated user authUserID.  authUserID.(string)
\* panics on a value that is no string: the Recovery middleware of
\* gin.Default() answers 500.
GetProfile(authUserID, requestedID) ==
    /\ last' = IF authUserID.type /= "string"
               THEN Response("GetProfile", 500, "panic", NoAmount, FALSE)
               ELSE GetProfileResult(authUserID.value, requestedID).resp
    /\ UNCHANGED <<now, users, rooms, snacks, reservations, reservation_snacks, inflight,
            password_reset_tokens>>

\* jwt.ParseWithClaims decoding the user_id claim into the UserID field of
\* &auth.Claims{}: a field of type uuid.UUID takes the text of a UUID only.
ClaimsDecode(type, token) == type = "uuid.UUID" => IsUUID(token.user_id)

\* A route of the group protected: JWTAuthMiddleware, whose claims have a
\* UserID of the given type, then the handler.  A token whose claims do not
\* decode fails jwt.ParseWithClaims like any other invalid token.
ProtectedRoute(type, header, op, Handler) ==
    IF JWTAuthMiddleware(header) /= ""
        THEN /\ last' = Response(op, 401, JWTAuthMiddleware(header), NoAmount, FALSE)
             /\ UNCHANGED <<now, users, rooms, snacks, reservations, reservation_snacks,
                            inflight, password_reset_tokens>>
    ELSE IF ~ClaimsDecode(type, header[2])
        THEN /\ last' = Response(op, 401, "invalid token", NoAmount, FALSE)
             /\ UNCHANGED <<now, users, rooms, snacks, reservations, reservation_snacks,
                            inflight, password_reset_tokens>>
    ELSE Handler

\* GET /users/:id behind the middleware, which sets userID to claims.UserID,
\* a value of the type of that field.
ProtectedGetProfile(header, id) ==
    \E type \in ClaimsUserIDTypes :
        ProtectedRoute(type, header, "GetProfile",
                       GetProfile(ContextValue(type, IF Len(header) = 2
                                                     THEN header[2].user_id ELSE ""), id))

\* POST /users/:id behind the middleware.
ProtectedUpdateProfile(header, t, id, req) ==
    \E type \in ClaimsUserIDTypes :
        ProtectedRoute(type, header, "UpdateProfile",
                       BeginUpdateProfile(t, ContextValue(type, IF Len(header) = 2
                                                                THEN header[2].user_id ELSE ""),
                                          id, req))

----------------------------------------------------------------------------
\* The ids of the seeded users and rooms from one start of the server to the
\* next: the ids of a start are none of the ids before it.
\* SeedUsers: in one transaction, DELETE FROM password_reset_tokens, DELETE
\* FROM users, which fails on reservations_user_id_fkey while a reservation
\* is stored, and the two INSERTs.  On a failure nothing is changed.
SeedUsers(ids) ==
    IF reservations /= <<>>
    THEN [users |-> users, password_reset_tokens |-> password_reset_tokens]
    ELSE [users |-> SeededUsers(ids[1], ids[2]), password_reset_tokens |-> {}]

\* SeedRooms: in one transaction, DELETE FROM rooms, which fails on
\* reservations_room_id_fkey while a reservation is stored, and the three
\* INSERTs.  On a failure nothing is changed.
SeedRooms(ids) ==
    IF reservations /= <<>> THEN rooms
    ELSE SeededRooms(ids[1], ids[2], ids[3])

\* The server starts again: the requests in flight are gone with their
\* transactions, and main runs the two seeders, logging their failures.
main ==
    \E uids \in {<<"a1", "u1">>, <<"a2", "u4">>}, rids \in {<<"r1", "r2", "r3">>, <<"r5", "r6",
            "r7">>} :
        /\ \A i \in 1..2 : uids[i] \notin DOMAIN users
        /\ \A i \in 1..3 : rids[i] \notin DOMAIN rooms
        /\ users' = SeedUsers(uids).users
        /\ password_reset_tokens' = SeedUsers(uids).password_reset_tokens
        /\ rooms' = SeedRooms(rids)
        /\ inflight' = [t \in TxIds |-> [pc |-> "idle"]]
        /\ last' = Response("main", 0, "", NoAmount, reservations = <<>>)
        /\ UNCHANGED <<now, snacks, reservations, reservation_snacks>>

----------------------------------------------------------------------------
\* The windows <<start_time, end_time>> the requests name.  Three pass the
\* time checks at time 0: 30 minutes long from time 0, 30 minutes long from
\* time 15, and 24 hours long from the end of that one.  Four do not: too
\* short, too long, empty, reversed.
ClockWindows ==
    {<<0, 30>>, <<15, 45>>, <<45, 1485>>,
     <<0, 15>>, <<0, 1441>>, <<15, 15>>, <<45, 15>>}

\* A JWT: whether it parses, its signing method, whether its signature
\* verifies, whether it has expired, and its claims role and user_id.
UserToken(user_id, role, signed, expired) ==
    [wellformed |-> TRUE, alg |-> "HS256", signed |-> signed, expired |-> expired,
     role |-> role, user_id |-> user_id]

CreateRequest(r, u, w, v, l) ==
    [room_id |-> r, user_id |-> u, start_time |-> w[1], end_time |-> w[2],
     visitor_count |-> v, snacks |-> l]

CalculationRequest(r, w, l) ==
    [room_id |-> r, start_time |-> w[1], end_time |-> w[2], snacks |-> l]

UpdateRoomRequest(c, p, s) == [capacity |-> c, price_per_hour |-> p, status |-> s]

----------------------------------------------------------------------------
\* Booking: reservations are created, their status is set, rooms are updated
\* and deleted.
BookingWindows == {<<15, 45>>, <<0, 60>>, <<0, 15>>}

\* Bookings of Meeting Room A are made by the seeded user user1.
BookingCreateRequests ==
    {CreateRequest("r1", "u1", w, v, <<>>) :
        w \in BookingWindows, v \in {0, MaxVisitors - 1, MaxVisitors}}

UpdateReservationStatusRequests ==
    [reservation_id : 1..MaxReservations,
     status : ReservationStatusEnum \cup {"archived", ""}]

\* A capacity of 1, a capacity of 0, a status the column refuses.
BookingUpdateRoomRequests ==
    {UpdateRoomRequest(<<1>>, <<>>, <<>>), UpdateRoomRequest(<<0>>, <<>>, <<>>),
     UpdateRoomRequest(<<>>, <<>>, <<"active">>)}

Next ==
    \/ \E t \in TxIds, req \in BookingCreateRequests : BeginCreateReservation(t, req)
    \/ \E t \in TxIds : SelectRoom(t)
    \/ \E t \in TxIds : CountOverlapping(t)
    \/ \E t \in TxIds : SelectSnacks(t)
    \/ \E t \in TxIds : InsertReservation(t)
    \/ \E t \in TxIds, ok \in BOOLEAN : Commit(t, ok)
    \/ \E req \in UpdateReservationStatusRequests : UpdateReservationStatus(req)
    \/ \E t \in TxIds, req \in BookingUpdateRoomRequests : BeginUpdateRoom(t, "r1", req)
    \/ \E t \in TxIds : CommitUpdateRoom(t)
    \/ \E t \in TxIds : BeginDeleteRoom(t, "r1")
    \/ \E t \in TxIds : CommitDeleteRoom(t)

Spec == Init /\ [][Next]_vars

----------------------------------------------------------------------------
\* Clock: every kind of window is asked for, of CreateReservation and of
\* CalculateReservationCost, while the clock moves.
ClockCreateRequests == {CreateRequest("r1", "u1", w, 1, <<>>) : w \in ClockWindows}

ClockCalculationRequests == {CalculationRequest("r1", w, <<>>) : w \in ClockWindows}

NextClock ==
    \/ Tick
    \/ \E t \in TxIds, req \in ClockCreateRequests : BeginCreateReservation(t, req)
    \/ \E t \in TxIds : SelectRoom(t)
    \/ \E t \in TxIds : CountOverlapping(t)
    \/ \E t \in TxIds : SelectSnacks(t)
    \/ \E t \in TxIds : InsertReservation(t)
    \/ \E t \in TxIds, ok \in BOOLEAN : Commit(t, ok)
    \/ \E t \in TxIds, req \in ClockCalculationRequests : BeginCalculateReservationCost(t, req)
    \/ \E t \in TxIds : SelectRoomCost(t)
    \/ \E t \in TxIds : SelectSnacksCost(t)
    \/ \E t \in TxIds, ok \in BOOLEAN : CommitCalculateReservationCost(t, ok)

SpecClock == Init /\ [][NextClock]_vars

----------------------------------------------------------------------------
\* Cost: snacks are added to the catalog and reservations with snack lines
\* are created and cancelled.
CostWindows == {<<15, 45>>}

\* No line, one line (of a snack of the catalog, with a quantity of 0, of an
\* unknown snack), two lines of one snack, two lines of two snacks.
CostOrders ==
    {<<>>,
     <<[snack_id |-> "s1", quantity |-> 1]>>,
     <<[snack_id |-> "s1", quantity |-> 0]>>,
     <<[snack_id |-> UnknownSnack, quantity |-> 1]>>,
     <<[snack_id |-> "s1", quantity |-> 1], [snack_id |-> "s1", quantity |-> 1]>>,
     <<[snack_id |-> "s1", quantity |-> 1], [snack_id |-> "s2", quantity |-> 1]>>}

CostCreateRequests ==
    {CreateRequest("r1", "u1", w, 1, l) : w \in CostWindows, l \in CostOrders}
        \cup {CreateRequest("r1", UnknownUser, <<45, 1455>>, 1, <<>>)}

\* Prices of -0.01, 0, 0.004 and 0.03.
CreateSnackRequests ==
    [price : {Amount(-1, 0), Amount(0, 0), Amount(0, 24), Amount(3, 0)}]

NextCost ==
    \/ \E req \in CreateSnackRequests : CreateSnack(req)
    \/ \E t \in TxIds, req \in CostCreateRequests : BeginCreateReservation(t, req)
    \/ \E t \in TxIds : SelectRoom(t)
    \/ \E t \in TxIds : CountOverlapping(t)
    \/ \E t \in TxIds : SelectSnacks(t)
    \/ \E t \in TxIds : InsertReservation(t)
    \/ \E t \in TxIds : InsertSnackOrder(t)
    \/ \E t \in TxIds, ok \in BOOLEAN : Commit(t, ok)
    \/ \E req \in [reservation_id : 1..MaxReservations,
            status : {"cancelled"}] : UpdateReservationStatus(req)

SpecCost == Init /\ [][NextCost]_vars

----------------------------------------------------------------------------
\* The price specification: reservations with and without a snack line, price
\* changes of rooms, new snacks, status updates and reads of a reservation.
PriceCreateSnackRequests == [price : {Amount(3, 0)}]

PriceStatusRequests == [reservation_id : 1..MaxReservations, status : {"confirmed"}]

\* A window of 40 minutes without a snack line, and one of 30 minutes with a
\* snack line.
PriceCreateRequests ==
    {CreateRequest("r1", "u1", <<0, 40>>, 1, <<>>),
     CreateRequest("r1", "u1", <<45, 75>>, 1, <<[snack_id |-> "s1", quantity |-> 1]>>)}

\* A price_per_hour of 7.
PriceUpdateRoomRequests == {UpdateRoomRequest(<<>>, <<Amount(7, 0)>>, <<>>)}

NextPrice ==
    \/ \E req \in PriceCreateSnackRequests : CreateSnack(req)
    \/ \E t \in TxIds, req \in PriceCreateRequests : BeginCreateReservation(t, req)
    \/ \E t \in TxIds : SelectRoom(t)
    \/ \E t \in TxIds : CountOverlapping(t)
    \/ \E t \in TxIds : SelectSnacks(t)
    \/ \E t \in TxIds : InsertReservation(t)
    \/ \E t \in TxIds : InsertSnackOrder(t)
    \/ \E t \in TxIds, ok \in BOOLEAN : Commit(t, ok)
    \/ \E t \in TxIds, req \in PriceUpdateRoomRequests : BeginUpdateRoom(t, "r1", req)
    \/ \E t \in TxIds : CommitUpdateRoom(t)
    \/ \E req \in PriceStatusRequests : UpdateReservationStatus(req)
    \/ \E id \in 1..(MaxReservations + 1) : GetReservationByID(id)

SpecPrice == Init /\ [][NextPrice]_vars

----------------------------------------------------------------------------
\* The race specification: two CreateReservation requests, each in its own
\* transaction, with their steps interleaved in every order.
RaceCreateRequests ==
    {CreateRequest(r, u, w, 1, <<>>) :
        r \in RequestRoomIds, u \in {"u1", UnknownUser}, w \in BookingWindows}

NextRace ==
    \/ \E t \in TxIds, req \in RaceCreateRequests : BeginCreateReservation(t, req)
    \/ \E t \in TxIds : SelectRoom(t)
    \/ \E t \in TxIds : CountOverlapping(t)
    \/ \E t \in TxIds : SelectSnacks(t)
    \/ \E t \in TxIds : InsertReservation(t)
    \/ \E t \in TxIds, ok \in BOOLEAN : Commit(t, ok)

SpecRace == Init /\ [][NextRace]_vars

----------------------------------------------------------------------------
\* The transaction specification: CreateReservation one statement at a time,
\* two requests interleaved, with snack orders that insert and snack orders
\* that fail, and commits that fail.
\* Orders of one line that inserts and of a line that inserts with a line that
\* fails, over two windows that touch, and a request of an unknown user.
TxCreateRequests ==
    {CreateRequest("r1", "u1", w, 1, l) :
        w \in {<<15, 45>>, <<45, 1455>>},
        l \in {<<[snack_id |-> "s1", quantity |-> 1]>>,
               <<[snack_id |-> "s1", quantity |-> 1], [snack_id |-> "s2", quantity |-> 0]>>}}
        \cup {CreateRequest("r1", UnknownUser, <<15, 45>>, 1, <<>>)}

NextTx ==
    \/ \E req \in PriceCreateSnackRequests : CreateSnack(req)
    \/ \E t \in TxIds, req \in TxCreateRequests : BeginCreateReservation(t, req)
    \/ \E t \in TxIds : SelectRoom(t)
    \/ \E t \in TxIds : CountOverlapping(t)
    \/ \E t \in TxIds : SelectSnacks(t)
    \/ \E t \in TxIds : InsertReservation(t)
    \/ \E t \in TxIds : InsertSnackOrder(t)
    \/ \E t \in TxIds, ok \in BOOLEAN : Commit(t, ok)

SpecTx == Init /\ [][NextTx]_vars

----------------------------------------------------------------------------
\* The users specification: registrations and profile updates, well formed or
\* not, naming free and taken usernames and emails.
RegisterRequests ==
    [username : {"user1", "alice", "al"},
     email : {"user1@example.com", "alice@example.com", "alice"},
     password : {"secret1", "abc"},
     confirm_password : {"secret1", "secret2", "abc", ""}]

UsersUpdateProfileRequests ==
    [username : {"user1", "alice", "al"}, email : {"user1@example.com"},
     language : {"en"}, password : {""}]

\* Valid tokens of user1 and of the first user to register.
UsersHeaders ==
    {<<"Bearer", UserToken(u, "user", TRUE, FALSE)>> : u \in {"u1", "u2"}}

NextUsers ==
    \/ \E req \in RegisterRequests : Register(req)
    \/ \E h \in UsersHeaders, t \in TxIds, id \in {"u1", "u2"},
           req \in UsersUpdateProfileRequests : ProtectedUpdateProfile(h, t, id, req)
    \/ \E t \in TxIds : CountEmail(t)
    \/ \E t \in TxIds : CommitUpdateProfile(t)

SpecUsers == Init /\ [][NextUsers]_vars

----------------------------------------------------------------------------
\* The admin specification: the admin routes called with every kind of
\* Authorization header, and reservations for them to act on.
Token(wellformed, alg, signed, expired, role) ==
    [wellformed |-> wellformed, alg |-> alg, signed |-> signed, expired |-> expired,
     role |-> role]

AdminToken == Token(TRUE, "HS256", TRUE, FALSE, "admin")

Headers ==
    {<<>>, <<"Bearer">>, <<"Bearer", AdminToken, "x">>,
     <<"Basic", AdminToken>>, <<"bearer", AdminToken>>}
    \cup {<<"Bearer", t>> : t \in {AdminToken, Token(TRUE, "HS256", TRUE, FALSE, "user"),
            Token(TRUE, "HS256", FALSE, FALSE, "admin"), Token(TRUE, "HS256", TRUE, TRUE, "admin"),
            Token(TRUE, "HS512", TRUE, FALSE, "admin"), Token(TRUE, "none", TRUE, FALSE, "admin"),
            Token(FALSE, "HS256", FALSE, FALSE, "admin")}}

AdminCreateRoomRequests ==
    [capacity : {0, 3}, price_per_hour : {Amount(6, 0)}, status : {"available"}]

AdminUpdateRoomRequests == {UpdateRoomRequest(<<c>>, <<>>, <<>>) : c \in {0, 1}}

AdminStatusRequests == [reservation_id : {1}, status : {"confirmed", "archived"}]

\* Prices of 0 and 0.03.
AdminCreateSnackRequests == [price : {Amount(0, 0), Amount(3, 0)}]

\* The reservation the admin routes act on, and the one client that asks for
\* it.
AdminCreateRequests == {CreateRequest("r1", "u1", <<0, 60>>, 1, <<>>)}

AdminCreateTxIds == {"t1"}

NextAdmin ==
    \/ \E h \in Headers, req \in AdminCreateRoomRequests : AdminCreateRoom(h, req)
    \/ \E h \in Headers, t \in TxIds, req \in AdminUpdateRoomRequests :
           AdminUpdateRoom(h, t, "r1", req)
    \/ \E t \in TxIds : CommitUpdateRoom(t)
    \/ \E h \in Headers, t \in TxIds : AdminDeleteRoom(h, t, "r1")
    \/ \E t \in TxIds : CommitDeleteRoom(t)
    \/ \E h \in Headers, req \in AdminCreateSnackRequests : AdminCreateSnack(h, req)
    \/ \E h \in Headers, req \in AdminStatusRequests : AdminUpdateReservationStatus(h, req)
    \/ \E t \in AdminCreateTxIds, req \in AdminCreateRequests : BeginCreateReservation(t, req)
    \/ \E t \in TxIds : SelectRoom(t)
    \/ \E t \in TxIds : CountOverlapping(t)
    \/ \E t \in TxIds : SelectSnacks(t)
    \/ \E t \in TxIds : InsertReservation(t)
    \/ \E t \in TxIds, ok \in BOOLEAN : Commit(t, ok)

SpecAdmin == Init /\ [][NextAdmin]_vars

----------------------------------------------------------------------------
\* The reset specification: password reset requests for registered,
\* unregistered and malformed emails, between registrations and clock ticks.
ResetEmails == {"user1@example.com", "alice@example.com", "alice"}

NextReset ==
    \/ Tick
    \/ \E t \in TxIds, email \in ResetEmails : BeginRequestPasswordReset(t, email)
    \/ \E t \in TxIds : InvalidateTokens(t)
    \/ \E t \in TxIds : CommitRequestPasswordReset(t)
    \/ \E req \in [username : {"alice", "al"}, email : {"alice@example.com", "user1@example.com"},
            password : {"secret1"}, confirm_password : {"secret1", "secret2"}] : Register(req)

SpecReset == Init /\ [][NextReset]_vars

----------------------------------------------------------------------------
\* The password specification: reset links are requested for the two seeded
\* users and used, with tokens that were issued and tokens that were not, with
\* well and ill formed passwords, before and after the links expire.
ResetPasswordRequests ==
    [token : {"k1", "k2", "k3", ""}, new_password : {"secret1", "secret2", "abc"},
     confirm_password : {"secret1", "secret2"}]

NextPassword ==
    \/ Wait
    \/ \E t \in TxIds, email \in {"user1@example.com", "admin@example.com",
            "alice@example.com"} : BeginRequestPasswordReset(t, email)
    \/ \E t \in TxIds : InvalidateTokens(t)
    \/ \E t \in TxIds : CommitRequestPasswordReset(t)
    \/ \E t \in TxIds, req \in ResetPasswordRequests : BeginResetPassword(t, req)
    \/ \E t \in TxIds : CommitResetPassword(t)

SpecPassword == Init /\ [][NextPassword]_vars

----------------------------------------------------------------------------
\* The calculation specification: the cost of a room, a window and an order of
\* snacks is calculated and the same reservation is created, while snacks
\* enter the catalog.
\* A window of 40 minutes and one too short; no line, two lines of one snack,
\* a line of a snack with a line of an unknown snack.
CalculationCreateRequests ==
    {CreateRequest("r1", "u1", w, 1, l) :
        w \in {<<0, 40>>, <<0, 15>>}, l \in {<<>>,
                <<[snack_id |-> "s1", quantity |-> 1], [snack_id |-> "s1", quantity |-> 1]>>,
                <<[snack_id |-> "s2", quantity |-> 1], [snack_id |-> UnknownSnack, quantity |-> 1]>>}}

\* The calculation request for the room, the window and the snacks of a
\* reservation request.
CalculationOf(req) ==
    CalculationRequest(req.room_id, <<req.start_time, req.end_time>>, req.snacks)

NextCalculation ==
    \/ \E req \in PriceCreateSnackRequests : CreateSnack(req)
    \/ \E t \in TxIds, req \in CalculationCreateRequests :
           BeginCalculateReservationCost(t, CalculationOf(req))
    \/ \E t \in TxIds : SelectRoomCost(t)
    \/ \E t \in TxIds : SelectSnacksCost(t)
    \/ \E t \in TxIds, ok \in BOOLEAN : CommitCalculateReservationCost(t, ok)
    \/ \E t \in TxIds, req \in CalculationCreateRequests : BeginCreateReservation(t, req)
    \/ \E t \in TxIds : SelectRoom(t)
    \/ \E t \in TxIds : CountOverlapping(t)
    \/ \E t \in TxIds : SelectSnacks(t)
    \/ \E t \in TxIds : InsertReservation(t)
    \/ \E t \in TxIds : InsertSnackOrder(t)
    \/ \E t \in TxIds, ok \in BOOLEAN : Commit(t, ok)

SpecCalculation == Init /\ [][NextCalculation]_vars

----------------------------------------------------------------------------
\* The profile specification: profiles are read and updated through the
\* protected routes, with tokens of the two seeded users and of a user that
\* has no row, valid and not, and with the path id of every user.
ProfileHeaders == {<<>>} \cup {<<"Bearer", t>> : t \in {UserToken("a1", "admin", TRUE, FALSE),
        UserToken("u1", "user", TRUE, FALSE), UserToken(UnknownUser, "user", TRUE, FALSE),
        UserToken(NotAUUID, "user", TRUE, FALSE), UserToken("a1", "admin", FALSE, FALSE),
        UserToken("u1", "user", TRUE, TRUE)}}

ProfileIds == UserIds \cup {UnknownUser, NotAUUID}

ProtectedUpdateProfileRequests ==
    [username : {"user1", "alice"}, email : {"user1@example.com"},
     language : {"en"}, password : {"secret1"}]

NextProfile ==
    \/ \E h \in ProfileHeaders, id \in ProfileIds : ProtectedGetProfile(h, id)
    \/ \E h \in ProfileHeaders, t \in TxIds, id \in ProfileIds,
           req \in ProtectedUpdateProfileRequests : ProtectedUpdateProfile(h, t, id, req)
    \/ \E t \in TxIds : CountEmail(t)
    \/ \E t \in TxIds : CommitUpdateProfile(t)

SpecProfile == Init /\ [][NextProfile]_vars

----------------------------------------------------------------------------
\* The rooms specification: reservations are created, confirmed and
\* cancelled while rooms are deleted and updated, the requests interleaved
\* query by query, and the server starts again.
RoomsRoomIds == {"r1", "r2"}

\* A reservation of a seeded room by a seeded user, and one of the room and
\* by the user a restart seeds.
RoomsCreateRequests ==
    {CreateRequest("r1", "u1", <<15, 45>>, 1, <<>>), CreateRequest("r5", "u4", <<15, 45>>, 1, <<>>)}

RoomsUpdateRoomRequests ==
    {UpdateRoomRequest(<<1>>, <<>>, <<>>), UpdateRoomRequest(<<>>, <<>>, <<"active">>)}

NextRooms ==
    \/ main
    \/ \E t \in TxIds, req \in RoomsCreateRequests : BeginCreateReservation(t, req)
    \/ \E t \in TxIds : SelectRoom(t)
    \/ \E t \in TxIds : CountOverlapping(t)
    \/ \E t \in TxIds : SelectSnacks(t)
    \/ \E t \in TxIds : InsertReservation(t)
    \/ \E t \in TxIds, ok \in BOOLEAN : Commit(t, ok)
    \/ \E t \in TxIds, id \in RoomsRoomIds : BeginDeleteRoom(t, id)
    \/ \E t \in TxIds : CommitDeleteRoom(t)
    \/ \E t \in TxIds, id \in RoomsRoomIds, req \in RoomsUpdateRoomRequests :
           BeginUpdateRoom(t, id, req)
    \/ \E t \in TxIds : CommitUpdateRoom(t)
    \/ \E req \in [reservation_id : 1..MaxReservations, status : {"confirmed",
            "cancelled"}] : UpdateReservationStatus(req)

SpecRooms == Init /\ [][NextRooms]_vars

----------------------------------------------------------------------------
\* The accounts specification: registrations, and profile updates interleaved
\* query by query with them and with each other, and the server starts again.
AccountsRegisterRequests ==
    [username : {"user1", "alice"}, email : {"user1@example.com", "alice@example.com"},
     password : {"secret1"}, confirm_password : {"secret1"}]

AccountsUpdateProfileRequests ==
    [username : {"user1", "alice", "al"}, email : {"user1@example.com", "alice@example.com"},
     language : {"en"}, password : {""}]

\* Valid tokens of the seeded users, of a user a restart seeds and of a user
\* id that is no UUID.
AccountsHeaders ==
    {<<"Bearer", UserToken(u, "user", TRUE, FALSE)>> : u \in {"a1", "u1", "u4", NotAUUID}}

NextAccounts ==
    \/ main
    \/ \E req \in AccountsRegisterRequests : Register(req)
    \/ \E h \in AccountsHeaders, t \in TxIds, id \in {"a1", "u1", "u2", "u4", NotAUUID},
           req \in AccountsUpdateProfileRequests : ProtectedUpdateProfile(h, t, id, req)
    \/ \E t \in TxIds : CountEmail(t)
    \/ \E t \in TxIds : CommitUpdateProfile(t)

SpecAccounts == Init /\ [][NextAccounts]_vars

----------------------------------------------------------------------------
\* The tokens specification: reset links are requested and used, the
\* requests interleaved query by query, while the clock passes the expiry of
\* the links and the server starts again.
TokensResetPasswordRequests ==
    {[token |-> k, new_password |-> p, confirm_password |-> c] :
        k \in {"k1", "k2"},
        p \in {"secret1", "secret2", "abc"}, c \in {"secret1", "secret2", "abc"}}

NextTokens ==
    \/ Wait
    \/ main
    \/ \E t \in TxIds, email \in {"user1@example.com", "alice@example.com",
            "alice"} : BeginRequestPasswordReset(t, email)
    \/ \E t \in TxIds : InvalidateTokens(t)
    \/ \E t \in TxIds : CommitRequestPasswordReset(t)
    \/ \E t \in TxIds, req \in TokensResetPasswordRequests : BeginResetPassword(t, req)
    \/ \E t \in TxIds : CommitResetPassword(t)

SpecTokens == Init /\ [][NextTokens]_vars

----------------------------------------------------------------------------
\* Reservation i holds the room of request req over an instant of its window.
Intersects(req, i) ==
    /\ reservations[i].room_id = req.room_id
    /\ reservations[i].status /= "cancelled"
    /\ reservations[i].start_time < req.end_time
    /\ reservations[i].end_time > req.start_time

\* The request passes every check CreateReservation makes before it looks for
\* overlapping reservations: the binding, the time window, the room, the
\* visitor count.
PassesEarlierChecks(req) ==
    /\ req.visitor_count >= 1
    /\ req.start_time >= now
    /\ req.end_time - req.start_time >= 30
    /\ req.end_time - req.start_time <= 1440
    /\ req.room_id \in DOMAIN rooms
    /\ rooms[req.room_id].status = "available"
    /\ req.visitor_count <= rooms[req.room_id].capacity

\* The transaction t holds a CreateReservation ready to commit whose reads
\* are the ones a request served at this instant makes: it passes every check
\* on the rows committed by now, and the rate it read is the rate of its room.
ReadsCurrent(t) ==
    /\ inflight[t].pc = "inserted"
    /\ PassesEarlierChecks(inflight[t].req)
    /\ ~\E i \in DOMAIN reservations : Intersects(inflight[t].req, i)
    /\ rooms[inflight[t].req.room_id].price_per_hour = inflight[t].pricePerHour

\* No two reservations of the same room that are both not cancelled have
\* intersecting [start, end) windows.
Disjoint ==
    \A i, j \in DOMAIN reservations :
        (/\ i < j
         /\ reservations[i].room_id = reservations[j].room_id
         /\ reservations[i].status /= "cancelled"
         /\ reservations[j].status /= "cancelled")
        => ~(/\ reservations[i].start_time < reservations[j].end_time
             /\ reservations[i].end_time > reservations[j].start_time)

\* C1: operations executed one after another keep the reservations of a room
\* that are not cancelled disjoint.  No step from a state where they are
\* disjoint leads to a state where two intersect, the step being an
\* UpdateReservationStatus, a step of UpdateRoom or DeleteRoom, a statement of
\* a CreateReservation, or the commit of a CreateReservation that no other
\* request came between (what it read is what the tables hold when it
\* commits).
C1_NoOverlap ==
    [][(/\ Disjoint
        /\ \A t \in TxIds : Commit(t, TRUE) => ReadsCurrent(t))
       => Disjoint']_vars

\* The step ends the CreateReservation of the transaction t with an error:
\* the request is not accepted and nothing is stored.
Refused(t) ==
    /\ inflight'[t].pc = "idle"
    /\ last'.op = "CreateReservation"
    /\ last'.status /= 201
    /\ ~last'.tx => inflight' = inflight
    /\ UNCHANGED <<reservations, reservation_snacks>>

\* The error of the first check req fails among the checks made before a
\* transaction begins, at the current time: the binding, the handler's check
\* and the time checks ("" when it passes them).
WindowError(req) ==
    IF req.visitor_count < 1 THEN "binding"
    ELSE IF req.end_time < req.start_time THEN "end time must be after start time"
    ELSE IF req.start_time < now THEN "reservation start time must be in the future"
    ELSE IF req.end_time <= req.start_time THEN "reservation end time must be after start time"
    ELSE IF req.end_time - req.start_time < 30 THEN "reservation must be at least 30 minutes long"
    ELSE IF req.end_time - req.start_time > 1440 THEN "reservation cannot exceed 24 hours"
    ELSE ""

\* The error of the first check req fails on the row of its room as committed
\* by now ("" when it passes them).
RoomError(req) ==
    IF req.room_id \notin DOMAIN rooms THEN "room not found or inactive"
    ELSE IF rooms[req.room_id].status /= "available" THEN "room not found or inactive"
    ELSE IF req.visitor_count > rooms[req.room_id].capacity
        THEN "visitor count exceeds room capacity of %d"
    ELSE ""

ConflictError == "room is already booked for the selected time period"

\* C2 as stated: every CreateReservation whose window intersects a reservation
\* of the room that is not cancelled is answered 409 with the conflict error
\* and stores nothing.
C2_ConflictAlways409 ==
    \A req \in BookingCreateRequests :
        (\E i \in DOMAIN reservations : Intersects(req, i))
        => \A r \in CreateReservationResults(req) :
               /\ r.resp.status = 409
               /\ r.reservations = reservations
               /\ r.reservation_snacks = reservation_snacks

\* C2 amended: every CreateReservation whose window intersects a reservation of
\* the room that is not cancelled is rejected and stores nothing; it is
\* answered 409 with the conflict error when the request passes the checks made
\* before the overlap check, and otherwise with the error of the first of
\* those checks it fails.  This holds of the handler on every reachable state.
\* With requests interleaved it holds statement by statement: a request that
\* fails a check made before its transaction begins is answered with that
\* error and reads no row, a request that fails a check of its room query is
\* answered with that error, and an overlap query that runs while such a
\* reservation is stored ends the request with 409, the conflict error and
\* nothing stored.
C2_ConflictRejected ==
    /\ [](\A req \in BookingCreateRequests :
            (\E i \in DOMAIN reservations : Intersects(req, i))
            => \A r \in CreateReservationResults(req) :
                   /\ r.resp.status /= 201
                   /\ r.reservations = reservations
                   /\ r.reservation_snacks = reservation_snacks
                   /\ IF WindowError(req) /= "" THEN r.resp.err = WindowError(req)
                      ELSE IF RoomError(req) /= "" THEN r.resp.err = RoomError(req)
                      ELSE r.resp.status = 409 /\ r.resp.err = ConflictError)
    /\ [][/\ \A t \in TxIds, req \in BookingCreateRequests :
                BeginCreateReservation(t, req)
                => IF WindowError(req) /= ""
                       THEN /\ Refused(t)
                            /\ ~last'.tx
                            /\ last'.err = WindowError(req)
                       ELSE /\ inflight'[t] = [pc |-> "begun", req |-> req]
                            /\ last' = last
          /\ \A t \in TxIds :
                SelectRoom(t)
                => IF RoomError(inflight[t].req) /= ""
                       THEN Refused(t) /\ last'.err = RoomError(inflight[t].req)
                       ELSE /\ inflight'[t].pc = "room"
                            /\ inflight'[t].req = inflight[t].req
                            /\ last' = last
          /\ \A t \in TxIds :
                (/\ CountOverlapping(t)
                 /\ \E i \in DOMAIN reservations : Intersects(inflight[t].req, i))
                => /\ Refused(t)
                   /\ last'.status = 409
                   /\ last'.err = ConflictError]_vars

\* A CreateReservation was answered 409 by its overlap query while the room
\* had a reservation, and another request is past its own overlap query.
C2_Witness ==
    /\ last.op = "CreateReservation"
    /\ last.status = 409
    /\ last.err = ConflictError
    /\ \E i \in DOMAIN reservations : reservations[i].status /= "cancelled"
    /\ \E t \in TxIds : inflight[t].pc \in {"counted", "priced", "inserted"}

----------------------------------------------------------------------------
\* The sum of price * quantity over the request lines k..Len that name a snack
\* of the catalog, each line counted.
RECURSIVE RequestedSubtotal(_, _)
RequestedSubtotal(lines, k) ==
    IF k > Len(lines) THEN 0
    ELSE (IF lines[k].snack_id \in DOMAIN snacks
             THEN snacks[lines[k].snack_id] * lines[k].quantity
             ELSE 0)
         + RequestedSubtotal(lines, k + 1)

\* The amount of rate * minutes / 60 + extra, the rate and extra in hundredths.
Claimed(rate, minutes, extra) ==
    Amount((rate \div 60) * minutes + ((rate % 60) * minutes) \div 60 + extra,
           ((rate % 60) * minutes) % 60)

\* What a successful CreateReservation must have done for req: one more row,
\* pending, with the request's fields, the rows before it untouched, and a
\* total of rate * duration plus the subtotals of the snack lines requested.
CreatedAsRequested(req) ==
    \A r \in CreateReservationResults(req) :
    LET n == Len(reservations) + 1
    IN /\ r.resp.status = 201
       /\ Len(r.reservations) = n
       /\ SubSeq(r.reservations, 1, n - 1) = reservations
       /\ r.reservations[n].status = "pending"
       /\ r.reservations[n].room_id = req.room_id
       /\ r.reservations[n].user_id = req.user_id
       /\ r.reservations[n].start_time = req.start_time
       /\ r.reservations[n].end_time = req.end_time
       /\ r.reservations[n].visitor_count = req.visitor_count
       /\ reservation_snacks \subseteq r.reservation_snacks
       /\ r.resp.total =
              Claimed(rooms[req.room_id].price_per_hour, req.end_time - req.start_time,
                      RequestedSubtotal(req.snacks, 1))

\* C3: a CreateReservation with a valid window, an available room, a visitor
\* count within capacity and no intersecting reservation that is not cancelled
\* (touching end points included) succeeds and adds exactly one pending
\* reservation whose total is room cost plus snack subtotal.  The claim is
\* read for the requests it can be meant for: those of a registered user
\* whose snack lines have a quantity of at least 1, served alone.
C3_ValidAlwaysCreated ==
    \A req \in CostCreateRequests :
        (/\ PassesEarlierChecks(req)
         /\ ~\E i \in DOMAIN reservations : Intersects(req, i)
         /\ req.user_id \in DOMAIN users
         /\ \A k \in 1..Len(req.snacks) : req.snacks[k].quantity >= 1)
        => CreatedAsRequested(req)

\* C4: for every CreateReservation that succeeds, the total returned equals
\* rate * hours plus the sum of price * quantity over every requested snack
\* line, duplicates of a snack id each counted, and the price stored is that
\* amount to the two decimals of its column.
C4_TotalCountsEveryLine ==
    \A req \in CostCreateRequests :
        \A r \in CreateReservationResults(req) :
        LET claimed == Claimed(rooms[req.room_id].price_per_hour,
                               req.end_time - req.start_time,
                               RequestedSubtotal(req.snacks, 1))
            stored == r.reservations[Len(r.reservations)].price
        IN r.resp.status = 201
           => /\ r.resp.total = claimed
              /\ \/ stored = claimed.cents /\ claimed.sixtieths <= 30
                 \/ stored = claimed.cents + 1 /\ claimed.sixtieths >= 30

\* C5: a CreateReservation whose visitor count exceeds the capacity of its room
\* is never accepted and stores nothing, whatever its window.  So answers the
\* handler on every reachable state.  With requests interleaved: a room query
\* that reads a capacity below the visitor count ends the request with an
\* error and nothing stored, a request goes on past its room query only with
\* a visitor count within the capacity read, and every reservation row a
\* commit stores has a visitor count within the capacity its request read.
C5_OverCapacityRejected ==
    /\ [](\A req \in BookingCreateRequests :
            (req.room_id \in DOMAIN rooms /\ req.visitor_count > rooms[req.room_id].capacity)
            => \A r \in CreateReservationResults(req) :
                   /\ r.resp.status /= 201
                   /\ r.reservations = reservations
                   /\ r.reservation_snacks = reservation_snacks)
    /\ [][/\ \A t \in TxIds :
                (/\ SelectRoom(t)
                 /\ inflight[t].req.room_id \in DOMAIN rooms
                 /\ inflight[t].req.visitor_count > rooms[inflight[t].req.room_id].capacity)
                => Refused(t)
          /\ \A t \in TxIds :
                (SelectRoom(t) /\ inflight'[t].pc = "room")
                => /\ inflight'[t].roomCapacity = rooms[inflight[t].req.room_id].capacity
                   /\ inflight'[t].req = inflight[t].req
                   /\ inflight[t].req.visitor_count <= inflight'[t].roomCapacity
          /\ \A t \in TxIds :
                (inflight[t].pc \in {"room", "counted", "priced", "inserted"}
                 /\ inflight'[t].pc \in {"room", "counted", "priced", "inserted"})
                => /\ inflight'[t].roomCapacity = inflight[t].roomCapacity
                   /\ inflight'[t].req = inflight[t].req
          /\ (reservations' /= reservations \/ reservation_snacks' /= reservation_snacks)
                => \/ /\ last'.op = "UpdateReservationStatus"
                      /\ reservation_snacks' = reservation_snacks
                      /\ \A i \in DOMAIN reservations :
                             reservations'[i].visitor_count = reservations[i].visitor_count
                   \/ \E t \in TxIds :
                         /\ Commit(t, TRUE)
                         /\ reservations' = Append(reservations, inflight[t].written.row[1])
                         /\ reservations'[Len(reservations')].visitor_count
                                = inflight[t].req.visitor_count
                         /\ inflight[t].req.visitor_count <= inflight[t].roomCapacity]_vars

\* A CreateReservation was refused by the capacity check of its room query
\* while another request is in its transaction.
C5_Witness ==
    /\ last.op = "CreateReservation"
    /\ last.err = "visitor count exceeds room capacity of %d"
    /\ last.status /= 201
    /\ last.tx
    /\ \E t \in TxIds : inflight[t].pc \in {"room", "counted", "priced", "inserted"}

\* The room and window of req are those of a cancelled reservation, and no
\* reservation of the room that is not cancelled intersects the window.
Freed(req) ==
    /\ \E i \in DOMAIN reservations :
           /\ reservations[i].status = "cancelled"
           /\ req.room_id = reservations[i].room_id
           /\ req.start_time = reservations[i].start_time
           /\ req.end_time = reservations[i].end_time
    /\ ~\E j \in DOMAIN reservations : Intersects(req, j)

\* C6: once a reservation is cancelled, a CreateReservation for its room and
\* exactly its window, otherwise valid and intersecting no other reservation
\* that is not cancelled, succeeds.  So answers the handler on every reachable
\* state.  With requests interleaved: the overlap query of such a request
\* finds no row and the request goes on; from there the snacks query and the
\* INSERT of the reservation of a registered user in a room that exists go
\* on as well; and the commit, unless the database fails it, answers 201 and
\* stores one more reservation, pending, with the room and the window of the
\* request.
C6_CancelledWindowFree ==
    /\ [](\A req \in BookingCreateRequests :
            (/\ Freed(req)
             /\ PassesEarlierChecks(req)
             /\ req.user_id \in DOMAIN users)
            => \A r \in CreateReservationResults(req) :
                   /\ r.resp.status = 201
                   /\ Len(r.reservations) = Len(reservations) + 1)
    /\ [][/\ \A t \in TxIds :
                (CountOverlapping(t) /\ Freed(inflight[t].req))
                => /\ inflight'[t].pc = "counted"
                   /\ inflight'[t].req = inflight[t].req
                   /\ last' = last
          /\ \A t \in TxIds :
                SelectSnacks(t)
                => /\ inflight'[t].pc = "priced"
                   /\ inflight'[t].req = inflight[t].req
                   /\ last' = last
          /\ \A t \in TxIds :
                (/\ InsertReservation(t)
                 /\ inflight[t].req.room_id \in DOMAIN rooms
                 /\ inflight[t].req.user_id \in DOMAIN users)
                => /\ inflight'[t].pc = "inserted"
                   /\ inflight'[t].req = inflight[t].req
                   /\ inflight'[t].written.row[1].room_id = inflight[t].req.room_id
                   /\ inflight'[t].written.row[1].start_time = inflight[t].req.start_time
                   /\ inflight'[t].written.row[1].end_time = inflight[t].req.end_time
                   /\ inflight'[t].written.row[1].status = "pending"
                   /\ last' = last
          /\ \A t \in TxIds :
                Commit(t, TRUE)
                => /\ last'.op = "CreateReservation"
                   /\ last'.status = 201
                   /\ reservations' = Append(reservations, inflight[t].written.row[1])]_vars

\* A CreateReservation was answered 201 for the room and window of a cancelled
\* reservation.
C6_Witness ==
    /\ last.op = "CreateReservation"
    /\ last.status = 201
    /\ Len(reservations) = 2
    /\ reservations[1].status = "cancelled"
    /\ reservations[2].status = "pending"
    /\ reservations[2].room_id = reservations[1].room_id
    /\ reservations[2].start_time = reservations[1].start_time
    /\ reservations[2].end_time = reservations[1].end_time

\* The window of req breaks one of the four time rules at the current time.
BadWindow(req) ==
    \/ req.start_time < now
    \/ req.end_time <= req.start_time
    \/ req.end_time - req.start_time < 30
    \/ req.end_time - req.start_time > 1440

\* C7: CreateReservation and CalculateReservationCost refuse a window that
\* starts in the past, does not end after its start, is shorter than 30
\* minutes or longer than 24 hours, before any row is read or written: the
\* request is answered in the step that reads the clock, with an error, and
\* no transaction is begun for it.  Every other window (exactly 30 minutes,
\* exactly 24 hours, a start equal to the current time) passes the time
\* checks and the request begins its transaction.  Every stored reservation
\* has end > start and a duration of 30 minutes to 24 hours.
C7_TimeRules ==
    /\ [](/\ \A req \in ClockCreateRequests : \A r \in CreateReservationResults(req) :
              IF BadWindow(req)
                  THEN /\ r.resp.status /= 201
                       /\ ~r.resp.tx
                       /\ r.reservations = reservations
                       /\ r.reservation_snacks = reservation_snacks
                  ELSE /\ r.resp.tx
                       /\ (/\ rooms[req.room_id].status = "available"
                           /\ ~\E i \in DOMAIN reservations : Intersects(req, i))
                          => r.resp.status = 201
          /\ \A req \in ClockCalculationRequests :
              LET r == CalculateReservationCostResult(req) IN
              IF BadWindow(req)
                  THEN r.status /= 200 /\ ~r.tx
                  ELSE r.tx /\ (rooms[req.room_id].status = "available" => r.status = 200)
          /\ \A i \in DOMAIN reservations :
              /\ reservations[i].end_time > reservations[i].start_time
              /\ reservations[i].end_time - reservations[i].start_time >= 30
              /\ reservations[i].end_time - reservations[i].start_time <= 1440)
    /\ [][/\ \A t \in TxIds, req \in ClockCreateRequests :
                BeginCreateReservation(t, req)
                => IF BadWindow(req)
                       THEN /\ last'.op = "CreateReservation"
                            /\ last'.status \notin {200, 201}
                            /\ ~last'.tx
                            /\ UNCHANGED <<inflight, db>>
                       ELSE /\ inflight'[t] = [pc |-> "begun", req |-> req]
                            /\ UNCHANGED <<last, db>>
          /\ \A t \in TxIds, req \in ClockCalculationRequests :
                BeginCalculateReservationCost(t, req)
                => IF BadWindow(req)
                       THEN /\ last'.op = "CalculateReservationCost"
                            /\ last'.status \notin {200, 201}
                            /\ ~last'.tx
                            /\ UNCHANGED <<inflight, db>>
                       ELSE /\ inflight'[t] = [pc |-> "cost begun", req |-> req]
                            /\ UNCHANGED <<last, db>>
          /\ \A t \in TxIds :
                Commit(t, TRUE)
                => LET row == reservations'[Len(reservations')] IN
                   /\ row.start_time = inflight[t].req.start_time
                   /\ row.end_time = inflight[t].req.end_time
                   /\ row.end_time - row.start_time >= 30
                   /\ row.end_time - row.start_time <= 1440]_vars

\* A reservation of exactly 30 minutes that starts at the current time was
\* just created, next to a stored reservation of exactly 24 hours.
C7_Witness ==
    /\ last.op = "CreateReservation"
    /\ last.status = 201
    /\ Len(reservations) = 2
    /\ reservations[2].start_time = now
    /\ reservations[2].end_time - reservations[2].start_time = 30
    /\ reservations[1].end_time - reservations[1].start_time = 1440

\* The edges of the reservation lifecycle.
LifecycleEdges ==
    {<<"pending", "confirmed">>, <<"pending", "cancelled">>,
     <<"confirmed", "completed">>, <<"confirmed", "cancelled">>}

\* C8 as stated: the status of a reservation changes only along the edges
\* pending -> confirmed, pending -> cancelled, confirmed -> completed and
\* confirmed -> cancelled.
C8_OnlyLifecycleEdges ==
    [][\A i \in DOMAIN reservations :
          reservations'[i].status /= reservations[i].status
          => <<reservations[i].status, reservations'[i].status>> \in LifecycleEdges]_vars

\* C8 amended: the status of a reservation changes only through an
\* UpdateReservationStatus that is answered 200, and only to one of pending,
\* confirmed, cancelled and completed; the change is not restricted to the
\* lifecycle edges.
C8_OnlyByValidUpdate ==
    [][\A i \in DOMAIN reservations :
          reservations'[i].status /= reservations[i].status
          => /\ last'.op = "UpdateReservationStatus"
             /\ last'.status = 200
             /\ reservations'[i].status \in
                    {"pending", "confirmed", "cancelled", "completed"}]_vars

\* An UpdateReservationStatus was answered 200 and a reservation is completed.
C8_Witness ==
    /\ last.op = "UpdateReservationStatus"
    /\ last.status = 200
    /\ \E i \in DOMAIN reservations : reservations[i].status = "completed"

\* C9: an UpdateReservationStatus for an existing reservation succeeds and
\* stores the requested status exactly when that status is one of pending,
\* confirmed, cancelled and completed; any other status is refused with the
\* invalid-status error and the reservation is unchanged.
C9_ValidStatusIffAccepted ==
    \A req \in UpdateReservationStatusRequests :
        req.reservation_id \in DOMAIN reservations
        => LET r == UpdateReservationStatusResult(req) IN
           IF req.status \in {"pending", "confirmed", "cancelled", "completed"}
               THEN /\ r.resp.status = 200
                    /\ r.reservations =
                           [reservations EXCEPT ![req.reservation_id].status = req.status]
               ELSE /\ r.resp.status = 400
                    /\ req.status /= ""
                       => r.resp.err = "invalid status: must be one of pending, confirmed, cancelled, or completed"
                    /\ r.reservations = reservations

\* An UpdateReservationStatus was refused for its status while reservations
\* exist, one of them completed by an earlier update.
C9_Witness ==
    /\ last.op = "UpdateReservationStatus"
    /\ last.status = 400
    /\ last.err = "invalid status: must be one of pending, confirmed, cancelled, or completed"
    /\ Len(reservations) = 2
    /\ \E i \in DOMAIN reservations : reservations[i].status = "completed"

\* C10: in every reachable state the visitor count of every reservation is at
\* most the current capacity of its room.
C10_VisitorsWithinCapacity ==
    \A i \in DOMAIN reservations :
        reservations[i].room_id \in DOMAIN rooms
        => reservations[i].visitor_count <= rooms[reservations[i].room_id].capacity

\* The room id has a pending or confirmed reservation.
HasActive(id) ==
    \E i \in DOMAIN reservations :
        /\ reservations[i].room_id = id
        /\ reservations[i].status \in {"pending", "confirmed"}

\* C11: DeleteRoom on a room with a pending or confirmed reservation is
\* answered 409 with the conflict error and the room stays; in every reachable
\* state the room of every pending or confirmed reservation exists.  A
\* DeleteRoom whose reservations query runs while the room has such a
\* reservation is answered 409 there and then, and no DELETE removes a room
\* that has one.
C11_ActiveRoomKept ==
    /\ [](\A i \in DOMAIN reservations :
              reservations[i].status \in {"pending", "confirmed"}
              => reservations[i].room_id \in DOMAIN rooms)
    /\ [][/\ \A t \in TxIds, id \in RoomsRoomIds :
              (BeginDeleteRoom(t, id) /\ HasActive(id))
              => /\ last'.op = "DeleteRoom"
                 /\ last'.status = 409
                 /\ last'.err = "cannot delete room with active reservations"
                 /\ rooms' = rooms
                 /\ inflight' = inflight
          /\ \A t \in TxIds :
              (CommitDeleteRoom(t) /\ HasActive(inflight[t].id))
              => /\ last'.status /= 200
                 /\ rooms' = rooms]_vars

\* A DeleteRoom was answered 409 for the room of a confirmed reservation, after
\* another room was deleted.
C11_Witness ==
    /\ last.op = "DeleteRoom"
    /\ last.status = 409
    /\ Cardinality(DOMAIN rooms) = 2
    /\ \E i \in DOMAIN reservations :
        reservations[i].status = "confirmed" /\ reservations[i].room_id \in DOMAIN rooms

\* C12: no step changes the stored price of a reservation or the stored lines
\* of its snacks (whatever UpdateRoom, CreateSnack or UpdateReservationStatus
\* does later), and the total_cost GetReservationByID reports for a
\* reservation is the total its CreateReservation returned.
C12_StoredTotalIsReturnedTotal ==
    [][/\ \A i \in DOMAIN reservations : reservations'[i].price = reservations[i].price
       /\ reservation_snacks \subseteq reservation_snacks'
       /\ \A l \in reservation_snacks' \ reservation_snacks :
              l.reservation_id \notin DOMAIN reservations
       /\ (last'.op = "CreateReservation" /\ last'.status = 201)
          => Amount((GetReservationByIDService(Len(reservations)).total_cost)', 0)
                 = last'.total]_vars

\* Two rows of reservations are both not cancelled, in the same room, with
\* intersecting windows.
RowsOverlap(i, j) ==
    /\ reservations[i].room_id = reservations[j].room_id
    /\ reservations[i].status /= "cancelled"
    /\ reservations[j].status /= "cancelled"
    /\ reservations[i].start_time < reservations[j].end_time
    /\ reservations[i].end_time > reservations[j].start_time

\* C13: with two CreateReservation transactions interleaved statement by
\* statement, two overlapping reservations of a room that are not cancelled
\* arise exactly through the race: the transaction that commits the later one
\* ran its overlap query before the earlier one was committed.  A transaction
\* whose overlap query runs after the other's commit never adds an
\* overlapping reservation.
C13_OverlapOnlyByRace ==
    [][\A t \in TxIds :
          Commit(t, TRUE)
          => \A j \in DOMAIN reservations :
                 (/\ reservations'[j].room_id = reservations'[Len(reservations')].room_id
                  /\ reservations'[j].status /= "cancelled"
                  /\ reservations'[j].start_time < reservations'[Len(reservations')].end_time
                  /\ reservations'[j].end_time > reservations'[Len(reservations')].start_time)
                 => inflight[t].seen < j]_vars

\* Both requests were accepted and their reservations overlap.
C13_Witness ==
    /\ \A t \in TxIds : inflight[t].pc = "idle"
    /\ Len(reservations) = 2
    /\ RowsOverlap(1, 2)
    /\ last.op = "CreateReservation"
    /\ last.status = 201

\* C14: every CreateReservation rejected for a validation reason (a window
\* that breaks a time rule, a visitor count above the capacity of the room) is
\* answered 400, and 500 is the answer to a database failure only.
C14_ValidationIs400 ==
    \A req \in BookingCreateRequests : \A r \in CreateReservationResults(req) :
        /\ (\/ BadWindow(req)
            \/ /\ req.room_id \in DOMAIN rooms
               /\ rooms[req.room_id].status = "available"
               /\ req.visitor_count > rooms[req.room_id].capacity)
           => r.resp.status = 400
        /\ r.resp.status = 500
           => r.resp.err \in {"error creating reservation: %v",
                              "error creating snack order: %v"}

\* C15: an UpdateReservationStatus with a valid status for an id no
\* reservation has is answered 404 and changes no reservation.
C15_UnknownReservationIs404 ==
    \A req \in UpdateReservationStatusRequests :
        (/\ req.status \in {"pending", "confirmed", "cancelled", "completed"}
         /\ req.reservation_id \notin DOMAIN reservations)
        => /\ UpdateReservationStatusResult(req).resp.status = 404
           /\ UpdateReservationStatusResult(req).reservations = reservations

\* C16: no two users share a username and no two share an email; a well-formed
\* Register that names a taken username or email, and a well-formed
\* UpdateProfile of the caller's own profile that names the username or email
\* of another user, are answered 409 and leave the users as they are: an
\* UpdateProfile whose username query, or whose email query, runs while
\* another user has the name, or the email, is answered 409 there and then
\* and changes no user, and the UPDATE of an UpdateProfile changes a user only
\* to a username and an email no other user has.
C16_UniqueUsers ==
    /\ [](/\ \A u, v \in DOMAIN users :
              u /= v => /\ users[u].username /= users[v].username
                        /\ users[u].email /= users[v].email
          /\ \A req \in AccountsRegisterRequests :
              (/\ BindRegister(req)
               /\ \E u \in DOMAIN users :
                      users[u].username = req.username \/ users[u].email = req.email)
              => /\ RegisterResult(req).resp.status = 409
                 /\ RegisterResult(req).users = users)
    /\ [][/\ \A t \in TxIds, h \in AccountsHeaders, id \in DOMAIN users,
                req \in AccountsUpdateProfileRequests :
              (/\ ProtectedUpdateProfile(h, t, id, req)
               /\ h[2].user_id = id
               /\ BindUpdateProfile(req)
               /\ \E u \in DOMAIN users \ {id} : users[u].username = req.username)
              => /\ last'.op = "UpdateProfile" /\ last'.status = 409
                 /\ users' = users /\ inflight' = inflight
          /\ \A t \in TxIds :
              (/\ CountEmail(t)
               /\ \E u \in DOMAIN users \ {inflight[t].id} :
                      users[u].email = inflight[t].req.email)
              => last'.op = "UpdateProfile" /\ last'.status = 409 /\ users' = users
          /\ \A t \in TxIds :
              (CommitUpdateProfile(t) /\ users' /= users)
              => \A u \in DOMAIN users \ {inflight[t].id} :
                     /\ users[u].username /= inflight[t].req.username
                     /\ users[u].email /= inflight[t].req.email]_vars

\* The header is "Bearer <token>" with a token that is validly signed and
\* has not expired.
CarriesValidToken(h) ==
    /\ Len(h) = 2
    /\ h[1] \in {"Bearer", "bearer"}
    /\ h[2].wellformed /\ h[2].alg \in {"HS256", "HS384", "HS512"}
    /\ h[2].signed /\ ~h[2].expired

\* A step is a call of an admin route with the header h.
AdminCall(h) ==
    \/ \E req \in AdminCreateRoomRequests : AdminCreateRoom(h, req)
    \/ \E t \in TxIds, req \in AdminUpdateRoomRequests : AdminUpdateRoom(h, t, "r1", req)
    \/ \E t \in TxIds : AdminDeleteRoom(h, t, "r1")
    \/ \E req \in AdminCreateSnackRequests : AdminCreateSnack(h, req)
    \/ \E req \in AdminStatusRequests : AdminUpdateReservationStatus(h, req)

\* C17: a call of an admin route (CreateRoom, UpdateRoom, DeleteRoom,
\* CreateSnack, UpdateReservationStatus) runs its handler only with a Bearer
\* header whose token is validly signed, unexpired and of role admin; with a
\* missing or malformed header or an invalid token it is answered 401, with a
\* valid token of another role 403, and in both cases no table changes and no
\* transaction is begun.  The transaction of an UpdateRoom or a DeleteRoom is
\* begun by such a call only, and rooms and snacks change by such a call or by
\* the commit of such a transaction only.
C17_AdminOnly ==
    [][/\ \A h \in Headers :
              AdminCall(h)
              => IF CarriesValidToken(h) /\ h[2].role = "admin"
                     THEN inflight' /= inflight \/ last'.status \notin {401, 403}
                     ELSE /\ last'.status = IF CarriesValidToken(h) THEN 403 ELSE 401
                          /\ ~last'.tx
                          /\ UNCHANGED <<db, inflight>>
       /\ \A t \in TxIds :
              (inflight[t].pc = "idle" /\ inflight'[t].pc \in {"updating", "deleting"})
              => \E h \in Headers :
                     /\ CarriesValidToken(h) /\ h[2].role = "admin"
                     /\ AdminCall(h)
       /\ (rooms' /= rooms \/ snacks' /= snacks)
              => \/ \E h \in Headers :
                        /\ CarriesValidToken(h) /\ h[2].role = "admin"
                        /\ AdminCall(h)
                 \/ \E t \in TxIds : CommitUpdateRoom(t) \/ CommitDeleteRoom(t)]_vars

\* An admin route was refused with 403 after admin calls created a snack and
\* confirmed a reservation.
C17_Witness ==
    /\ last.status = 403
    /\ last.op \in {"CreateRoom", "UpdateRoom", "DeleteRoom", "CreateSnack",
                    "UpdateReservationStatus"}
    /\ DOMAIN snacks /= {}
    /\ \E i \in DOMAIN reservations : reservations[i].status = "confirmed"

\* C18: for every two well-formed emails, one of an active user and one of
\* none, RequestPasswordReset answers with the same status, the same message
\* and the same reset_link.
C18_ResetRevealsNothing ==
    \A e1, e2 \in {e \in ResetEmails : IsEmail(e)} :
        ((\E u \in DOMAIN users : users[u].email = e1 /\ users[u].status = "active")
         /\ ~(\E u \in DOMAIN users : users[u].email = e2 /\ users[u].status = "active"))
        => /\ RequestPasswordResetResult(e1).status = RequestPasswordResetResult(e2).status
           /\ RequestPasswordResetResult(e1).message = RequestPasswordResetResult(e2).message
           /\ RequestPasswordResetResult(e1).reset_link
                  = RequestPasswordResetResult(e2).reset_link

\* C19: a Register whose password and confirm_password differ is answered 400
\* without the registration service being called, and the users are unchanged.
C19_MismatchRejected ==
    \A req \in RegisterRequests :
        req.password /= req.confirm_password
        => /\ RegisterResult(req).resp.status = 400
           /\ ~RegisterResult(req).resp.tx
           /\ RegisterResult(req).users = users

\* A Register was refused for its confirm_password after another registered.
C19_Witness ==
    /\ last.op = "Register"
    /\ last.status = 400
    /\ last.err = "binding: eqfield"
    /\ Cardinality(DOMAIN users) = 3

\* C20: a CreateSnack with a price of zero or less is answered 400 without the
\* snack service being called and adds no snack; every snack of the catalog
\* has a price above zero.
C20_PositivePrices ==
    /\ \A req \in CreateSnackRequests :
        ~Positive(req.price)
        => /\ CreateSnackResult(req).resp.status = 400
           /\ ~CreateSnackResult(req).resp.tx
           /\ CreateSnackResult(req).snacks = snacks
    /\ \A x \in DOMAIN snacks : snacks[x] > 0

\* C21: CreateReservation is atomic.  A step in which a request fails, be it
\* at one of its queries, at the INSERT of the reservation row, at the INSERT of a snack order after
\* the reservation row was inserted, or at the commit, leaves reservations and
\* reservation_snacks as they were; and the two tables change in no step but
\* the successful commit of a request, so that a request never stores a part
\* of its rows.
C21_Atomic ==
    [][/\ \A t \in TxIds :
              (/\ inflight[t].pc \in {"begun", "room", "counted", "priced", "inserted"}
               /\ inflight'[t].pc = "idle"
               /\ last'.status /= 201)
                  => /\ reservations' = reservations
                     /\ reservation_snacks' = reservation_snacks
       /\ (reservations' /= reservations \/ reservation_snacks' /= reservation_snacks)
              => \E t \in TxIds :
                    /\ inflight[t].pc = "inserted" /\ inflight[t].todo = {}
                    /\ inflight'[t].pc = "idle"
                    /\ last'.status = 201
                    /\ reservations' = Append(reservations, inflight[t].written.row[1])
                    /\ \A l \in reservation_snacks' \ reservation_snacks :
                           l.reservation_id = Len(reservations')]_vars

\* A request failed at a snack order, after its reservation row was inserted,
\* once the other request had committed its reservation with a snack order.
C21_Witness ==
    /\ last.op = "CreateReservation"
    /\ last.err = "error creating snack order: %v"
    /\ \A t \in TxIds : inflight[t].pc = "idle"
    /\ Len(reservations) = 1
    /\ reservation_snacks /= {}

\* The reset token of the request is a row that is marked used.
TokenUsed(req) == \E row \in password_reset_tokens : row.token = req.token /\ row.used

\* C22: a password reset token is single-use.  A ResetPassword that succeeds
\* leaves its token marked used, a token marked used is never unused again,
\* and a well-formed ResetPassword that reads a token marked used is answered
\* 401 "invalid or expired reset token" and changes no user and no token.
C22_SingleUse ==
    [][/\ \A t \in TxIds, req \in TokensResetPasswordRequests :
              (BeginResetPassword(t, req) /\ BindResetPassword(req) /\ TokenUsed(req))
              => /\ last'.status = 401
                 /\ last'.err = "invalid or expired reset token"
                 /\ users' = users
                 /\ password_reset_tokens' = password_reset_tokens
                 /\ inflight' = inflight
       /\ \A t \in TxIds :
              CommitResetPassword(t)
              => /\ last'.status = 200
                 /\ \A row \in password_reset_tokens' :
                        row.token = inflight[t].resetToken.token => row.used
       /\ \A row \in password_reset_tokens : \A new \in password_reset_tokens' :
              (row.used /\ new.token = row.token /\ last'.op /= "main") => new.used
      ]_vars

\* The only token issued was used to set user1's password, it has not expired,
\* and a ResetPassword has since been refused as any with that token is.
C22_Witness ==
    /\ Cardinality(password_reset_tokens) = 1
    /\ "u1" \in DOMAIN users
    /\ users["u1"].password = "secret1"
    /\ last.op = "ResetPassword" /\ last.status = 401
    /\ last.err = "invalid or expired reset token"
    /\ \E row \in password_reset_tokens, req \in TokensResetPasswordRequests :
           /\ row.used /\ row.user_id = "u1" /\ row.expires_at >= now
           /\ req.token = row.token /\ req.new_password = "secret2"
           /\ BindResetPassword(req)
           /\ ResetPasswordService(req) = last.err

\* The rows of password_reset_tokens of the user u.
TokensOf(u) == {row \in password_reset_tokens : row.user_id = u}

\* Each user has at most one unused reset token, and none of the user's
\* tokens was issued after it.
OneUnused ==
    \A u \in DOMAIN users :
        /\ Cardinality({row \in TokensOf(u) : ~row.used}) <= 1
        /\ \A row \in TokensOf(u) :
               ~row.used => \A other \in TokensOf(u) : other.expires_at <= row.expires_at

\* The unused tokens of the user of the transaction t, as committed by now,
\* that the UPDATE of t did not match: tokens committed since it ran.
Unmatched(t) == InvalidatedTokens(inflight[t].user_id) \ inflight[t].matched

\* C23: the UPDATE of a RequestPasswordReset matches every unused token of its
\* user, and its commit marks them used and leaves the new token as the only
\* unused token of the user, unless a token of the user was committed between
\* the two; such a token appears only by the commit of another
\* RequestPasswordReset for the same user while this one is in its
\* transaction, which operations completed one after another never do.  Apart
\* from such a commit, every step keeps that each user has at most one unused
\* token and none of the user's tokens was issued after it; and where that
\* holds, a ResetPassword runs its UPDATEs with an unused token only, the one
\* issued last for its user.
C23_OneUnusedToken ==
    [][/\ \A t \in TxIds :
              InvalidateTokens(t)
              => /\ inflight'[t].matched = InvalidatedTokens(inflight[t].user_id)
                 /\ inflight'[t].user_id = inflight[t].user_id
                 /\ inflight'[t].token = inflight[t].token
       /\ \A t \in TxIds :
              CommitRequestPasswordReset(t)
              => /\ last'.status = 200
                 /\ \A row \in password_reset_tokens' :
                        row.token \in inflight[t].matched => row.used
                 /\ \E row \in password_reset_tokens' :
                        /\ row.token = inflight[t].token
                        /\ row.user_id = inflight[t].user_id
                        /\ ~row.used
                 /\ Unmatched(t) = {}
                    => \A row \in password_reset_tokens' :
                           (row.user_id = inflight[t].user_id /\ ~row.used)
                           => row.token = inflight[t].token
       /\ \A t \in TxIds :
              (/\ inflight[t].pc = "invalidated"
               /\ inflight'[t].pc = "invalidated"
               /\ Unmatched(t) = {}
               /\ Unmatched(t)' /= {})
              => \E u \in TxIds \ {t} :
                     /\ CommitRequestPasswordReset(u)
                     /\ inflight[u].user_id = inflight[t].user_id
       /\ (/\ OneUnused
           /\ \A t \in TxIds : CommitRequestPasswordReset(t) => Unmatched(t) = {})
          => OneUnused'
       /\ OneUnused
          => \A t \in TxIds, req \in ResetPasswordRequests :
                 (BeginResetPassword(t, req) /\ inflight'[t].pc = "selected")
                 => /\ inflight'[t].resetToken.token = req.token
                    /\ ~inflight'[t].resetToken.used
                    /\ \A other \in TokensOf(inflight'[t].resetToken.user_id) :
                           other.expires_at <= inflight'[t].resetToken.expires_at]_vars

\* A second reset link was requested for user1 while the first was neither
\* used nor expired: the first token is marked used, the second is not.
C23_Witness ==
    /\ last.op = "RequestPasswordReset" /\ last.status = 200
    /\ users["u1"].password = "password123"
    /\ \E old, new \in TokensOf("u1") :
           /\ old.used /\ ~new.used
           /\ old.expires_at >= now

\* C24: a well-formed ResetPassword that reads an unused token whose expiry
\* time is before the current time is answered 401 "reset token has expired"
\* and changes no password and no token; and a ResetPassword changes the
\* password of a user only after it read an unused row of that user that had
\* not expired.
C24_ExpiredTokenRejected ==
    [][/\ \A t \in TxIds, req \in TokensResetPasswordRequests :
              (/\ BeginResetPassword(t, req)
               /\ BindResetPassword(req)
               /\ \E row \in UnusedTokenRows(req.token) : row.expires_at < now)
              => /\ last'.op = "ResetPassword"
                 /\ last'.status = 401
                 /\ last'.err = "reset token has expired"
                 /\ UNCHANGED <<users, password_reset_tokens, inflight>>
       /\ \A t \in TxIds, req \in TokensResetPasswordRequests :
              (BeginResetPassword(t, req) /\ inflight'[t].pc = "selected")
              => /\ inflight'[t].resetToken \in UnusedTokenRows(req.token)
                 /\ inflight'[t].resetToken.expires_at >= now
       /\ \A u \in DOMAIN users :
              (last'.op = "ResetPassword" /\ users'[u].password /= users[u].password)
              => \E t \in TxIds :
                    /\ CommitResetPassword(t)
                    /\ inflight[t].resetToken.user_id = u]_vars

\* A ResetPassword was refused for its expired token, and user1's token is
\* unused and expired while user1 has the seeded password.
C24_Witness ==
    /\ last.op = "ResetPassword" /\ last.status = 401
    /\ last.err = "reset token has expired"
    /\ "u1" \in DOMAIN users
    /\ users["u1"].password = "password123"
    /\ \E row \in TokensOf("u1") : ~row.used /\ row.expires_at < now

\* C25: whenever CalculateReservationCost and CreateReservation both succeed
\* for the same room, window and snack lines in the same state, the total_cost
\* of the calculation is the total_cost CreateReservation returns and the
\* price it stores for the reservation.
C25_CalculationIsCreation ==
    \A req \in CalculationCreateRequests : \A made \in CreateReservationResults(req) :
        LET calc == CalculateReservationCostResult(CalculationOf(req)) IN
        (calc.status = 200 /\ made.resp.status = 201)
            => /\ calc.total = made.resp.total
               /\ calc.total = Amount(made.reservations[Len(made.reservations)].price, 0)

\* C26: a successful UpdateReservationStatus changes the status of the
\* reservation it names and nothing else: the room, user, start, end, visitor
\* count and price of that reservation, every other reservation, every snack
\* line and every other table are as before.
C26_StatusOnly ==
    [][(last'.op = "UpdateReservationStatus" /\ last'.status = 200)
          => /\ \E req \in PriceStatusRequests :
                    /\ req.reservation_id \in DOMAIN reservations
                    /\ reservations' = [reservations EXCEPT
                                            ![req.reservation_id].status = req.status]
             /\ reservation_snacks' = reservation_snacks
             /\ UNCHANGED <<users, rooms, snacks, password_reset_tokens>>]_vars

\* Of two reservations, the one with a snack line was confirmed and the other
\* is still pending.
C26_Witness ==
    /\ last.op = "UpdateReservationStatus" /\ last.status = 200
    /\ Len(reservations) = 2
    /\ \E i, j \in DOMAIN reservations :
           /\ reservations[i].status = "confirmed"
           /\ reservations[j].status = "pending"
           /\ \E l \in reservation_snacks : l.reservation_id = i

\* C27: an authenticated user reads and updates their own profile only.  A
\* GetProfile or UpdateProfile that carries a valid token of a user id that
\* is a UUID, as Login issues them, and a path id other than the token's user
\* id is answered 403 without the service being called
\* and without a change of users; a GetProfile answers a profile only for the
\* id of the authenticated user; and the username, email, language or
\* password of a user changes only at the UPDATE of an UpdateProfile for that
\* user, whose transaction only a request with a valid token of that user
\* begins.
C27_OwnProfileOnly ==
    /\ [](\A a, id \in ProfileIds :
             a /= id => GetProfileResult(a, id).profile = <<>>)
    /\ [][/\ \A h \in ProfileHeaders, id \in ProfileIds :
                (/\ CarriesValidToken(h) /\ IsUUID(h[2].user_id) /\ h[2].user_id /= id
                 /\ \/ ProtectedGetProfile(h, id)
                    \/ \E t \in TxIds, req \in ProtectedUpdateProfileRequests :
                           ProtectedUpdateProfile(h, t, id, req))
                    => /\ last'.status = 403 /\ ~last'.tx
                       /\ UNCHANGED <<users, inflight>>
          /\ DOMAIN users' = DOMAIN users
          /\ \A t \in TxIds :
                (inflight[t].pc = "idle" /\ inflight'[t].pc /= "idle")
                    => \E h \in ProfileHeaders, req \in ProtectedUpdateProfileRequests :
                          /\ ProtectedUpdateProfile(h, t, inflight'[t].id, req)
                          /\ CarriesValidToken(h)
                          /\ h[2].user_id = inflight'[t].id
          /\ \A u \in DOMAIN users :
                users'[u] /= users[u]
                    => \E t \in TxIds :
                          /\ CommitUpdateProfile(t)
                          /\ inflight[t].id = u]_vars

====
